---- MODULE Spec2Model ----
(***************************************************************************)
(* Model of backend/main.py of RenkoDiscovery.                              *)
(*                                                                         *)
(* Prices, sizes and ADR values are integers in units of 1e-6 (one price   *)
(* of 1.0000 is 1000000), so round(x, 6) of an input is exact and          *)
(* round(x, 5) is a real rounding to a multiple of 10.  Bar indices keep   *)
(* the 0-based values of the source; sequences are 1-based, so row j of    *)
(* the data frame is df[j + 1].                                            *)
(***************************************************************************)
EXTENDS Integers, Sequences, FiniteSets, TLC

VARIABLES
    request,          \* RenkoRequest of the call
    df,               \* the M1 data frame: rows [open, high, low, close]
    adr_lookup,       \* adr_lookup[j+1] = adr_series.get(_get_session_date(df.index[j]))
    size_schedule,    \* NoSchedule or the list of (m1_index, brick_size, reversal_size, adr_value)
    pc,               \* "request", "loop", "done", "error"
    status,           \* HTTP outcome of get_renko_data: 0 while running, 200, 400
    i,                \* loop index of generate_renko_custom
    active_bs, active_rs, active_adr,
    pending_bs, pending_rs, pending_adr,
    bricks,
    last_brick_close,
    direction,
    up_threshold, down_threshold,
    pending_high, pending_low,
    tick_idx_open,
    pending_brick,
    emitted_at,       \* history: emitted_at[k] = [bar, idx] of bricks[k] (loop index and position in its batch)
    dt,               \* argument of _get_session_date: [day, hour, minute], day 0 being a Monday
    schedule,         \* session schedule: weekday (0=Mon..4=Fri) -> [hour, minute], a field may be None
    session_date,     \* NotCalled or <<the day returned by _get_session_date>>
    raw_df,           \* rows [datetime, high, low] given to compute_adr_lookup
    adr_period,
    adr_series,       \* NotCalled or <<the Series returned by compute_adr_lookup>>: session date -> ADR
    bt_request,       \* BacktestRequest
    bt_df,            \* the parquet rows: [open, close, reversal_size, currentADR, ema]
    bt_pc,            \* "request", "scan", "done" of backtest_signals
    all_entries,      \* the (entry index, signal name) pairs
    errors_result,    \* names of the signals whose expression raised
    entry_pos,        \* position of the single pass in all_entries (1-based)
    next_allowed_entry,
    trades_by_signal, \* signal name -> list of trades
    evaluated,        \* history: the pairs the single pass has gone through, in order
    bt_response,      \* NotCalled or <<the response of backtest_signals>>
    signals_json,     \* the list stored in Panda/signals.json ([] when the file is missing)
    json_at_start,    \* history: signals_json before the requests
    sig_request,      \* thread -> the request it serves: [op, name, expression]
    sig_pc,           \* thread -> "start", "read", "done"
    sig_local,        \* thread -> its local list signals
    sig_response,     \* thread -> NotCalled or <<the returned list>>
    st_df,            \* the renko table handed to compute_stats_columns
    st_ma,            \* ma_periods
    st_smae,          \* the two SMAE periods
    st_i,             \* index of the pullback-counter loop
    st_pc,            \* position in compute_stats_columns
    internal_type1,   \* running Type1 counter
    internal_type2,   \* running Type2 counter
    prev_state,       \* State of the bar before
    type1_count,      \* column Type1
    type2_count,      \* column Type2
    st_result,        \* the table compute_stats_columns returns
    fc_crossings      \* tuples appended by a call of find_threshold_crossings that has not returned (mod MaxCrossings)

vars == <<request, df, adr_lookup, size_schedule, pc, status, i,
          active_bs, active_rs, active_adr, pending_bs, pending_rs, pending_adr,
          bricks, last_brick_close, direction, up_threshold, down_threshold,
          pending_high, pending_low, tick_idx_open, pending_brick, emitted_at,
          dt, schedule, session_date, raw_df, adr_period, adr_series,
          bt_request, bt_df, bt_pc, all_entries, errors_result, entry_pos,
          next_allowed_entry, trades_by_signal, evaluated, bt_response,
          signals_json, json_at_start, sig_request, sig_pc, sig_local, sig_response,
          st_df, st_ma, st_smae, st_i, st_pc, internal_type1, internal_type2, prev_state, type1_count, type2_count, st_result,
          fc_crossings>>

\* the variables of the session and ADR functions
session_vars == <<dt, schedule, session_date>>
adr_vars == <<raw_df, adr_period, adr_series>>

\* what a step of get_renko_data / generate_renko_custom never touches
bt_vars == <<bt_request, bt_df, bt_pc, all_entries, errors_result, entry_pos,
             next_allowed_entry, trades_by_signal, evaluated, bt_response>>

\* the signals file and the requests working on it
sig_vars == <<signals_json, json_at_start, sig_request, sig_pc, sig_local, sig_response>>

\* compute_stats_columns
stats_vars == <<st_df, st_ma, st_smae, st_i, st_pc, internal_type1, internal_type2, prev_state, type1_count, type2_count, st_result>>

\* find_threshold_crossings while it runs
crossing_vars == <<fc_crossings>>

other_vars == <<session_vars, adr_vars, bt_vars, sig_vars, stats_vars, crossing_vars>>

engine_vars == <<i, active_bs, active_rs, active_adr, pending_bs, pending_rs, pending_adr,
                 bricks, last_brick_close, direction, up_threshold, down_threshold,
                 pending_high, pending_low, tick_idx_open, emitted_at>>

(***************************************************************************)
(* Bounds and input domains                                                *)
(***************************************************************************)
MaxBars == 3

None == -1            \* Python None / NaN for a number
NoSchedule == <<>>    \* size_schedule=None (an empty list never reaches the engine)
NoBrick == <<>>       \* pending_brick = None; <<b>> is the pending brick b
NotCalled == <<>>     \* no result yet; <<v>> is the returned value v

Base == 1000 * 1000   \* the price 1.0000

Bar(o, h, l, c) == [open |-> Base + o, high |-> Base + h, low |-> Base + l, close |-> Base + c]

BarSet ==
    { Bar(0, 500, -200, 300),          \* (1.0000, 1.0005, 0.9998, 1.0003)
      Bar(300, 1500, 200, 1200),       \* (1.0003, 1.0015, 1.0002, 1.0012)
      Bar(1200, 3200, 1100, 3100),     \* (1.0012, 1.0032, 1.0011, 1.0031)
      Bar(1000, 1100, -1300, -1200),   \* close 0.9988
      Bar(0, 400, -50, 200),           \* low 0.99995
      Bar(1200, 2100, -1004, 2000),    \* close exactly on 1.0020
      Bar(-1200, 1006, -4200, -4100) } \* close 0.9959

DataFrames == UNION { [1..n -> BarSet] : n \in 1..MaxBars }

WickModes == {"all", "big", "none"}

\* (brick_size, reversal_size) of a price-mode request
PriceSizes == { <<1000, 2000>>, <<1000, 500>>, <<0, 0>> }

\* (brick_pct, reversal_pct) of an ADR-mode request
AdrPcts == { <<10, 20>>, <<10, 5>> }

\* ADR of the consecutive sessions of the data: undefined, 0.0100, 0.0080
SessionADR == <<None, 10000, 8000>>

\* the session of each bar: bars are in time order, a bar is in the session of
\* the bar before it or in the next one
SessionsOf(n) ==
    { s \in [1..n -> 1..Len(SessionADR)] :
        /\ s[1] \in {1, 2}
        /\ \A k \in 1..(n-1) : s[k+1] \in {s[k], s[k] + 1} }

Min(a, b) == IF a <= b THEN a ELSE b
Max(a, b) == IF a >= b THEN a ELSE b

\* Python round(x / d) to an integer number of units, ties to even
RoundDiv(x, d) ==
    LET q == x \div d
        r == x % d
    IN  IF 2 * r < d THEN q
        ELSE IF 2 * r > d THEN q + 1
        ELSE IF q % 2 = 0 THEN q ELSE q + 1

\* round(x, 5): to the nearest multiple of 10 units
round5(x) == 10 * RoundDiv(x, 10)

(***************************************************************************)
(* get_renko_data: size schedule                                           *)
(***************************************************************************)
RECURSIVE build_schedule(_, _, _, _)
build_schedule(idx, prev_date_adr, acc, req) ==
    IF idx >= Len(df) THEN acc
    ELSE LET adr_val == adr_lookup[idx + 1]
         IN  IF adr_val # None /\ adr_val # prev_date_adr
             THEN build_schedule(idx + 1, adr_val,
                      Append(acc, <<idx, RoundDiv(adr_val * req.brick_pct, 100),
                                    RoundDiv(adr_val * req.reversal_pct, 100), adr_val>>),
                      req)
             ELSE build_schedule(idx + 1, prev_date_adr, acc, req)

(***************************************************************************)
(* generate_renko_custom: helpers                                          *)
(***************************************************************************)
\* the for loop of get_schedule_values: the last entry before the first one
\* whose index is past m1_idx, the first entry if there is none
RECURSIVE schedule_scan(_, _, _, _)
schedule_scan(sched, k, best, m1_idx) ==
    IF k > Len(sched) THEN best
    ELSE IF sched[k][1] <= m1_idx
         THEN schedule_scan(sched, k + 1, sched[k], m1_idx)
         ELSE best

\* brick_size * reversal_multiplier, the multiplier being reversal_size / brick_size
get_schedule_values(sched, m1_idx) ==
    IF sched = NoSchedule
    THEN <<request.brick_size, request.reversal_size, None>>
    ELSE LET best == schedule_scan(sched, 1, sched[1], m1_idx)
         IN  <<best[2], best[3], best[4]>>

close_prices(j) == df[j + 1].close
high_prices(j) == df[j + 1].high
low_prices(j) == df[j + 1].low
open_prices(j) == df[j + 1].open

\* mutant of crossings_at: current_open is not moved to the crossing bar
RECURSIVE crossings_at_stale_open(_, _, _, _, _, _)
crossings_at_stale_open(j, current_open, current_threshold, brick_sz, dir, acc) ==
    IF (dir = 1 /\ close_prices(j) >= current_threshold)
       \/ (dir = -1 /\ close_prices(j) <= current_threshold)
    THEN crossings_at_stale_open(j, current_open, current_threshold + dir * brick_sz, brick_sz, dir,
                                 Append(acc, <<current_open, j>>))
    ELSE [acc |-> acc, open |-> current_open, threshold |-> current_threshold]

\* the inner while loop of find_threshold_crossings at bar j
RECURSIVE crossings_at(_, _, _, _, _, _)
crossings_at(j, current_open, current_threshold, brick_sz, dir, acc) ==
    IF (dir = 1 /\ close_prices(j) >= current_threshold)
       \/ (dir = -1 /\ close_prices(j) <= current_threshold)
    THEN crossings_at(j, j, current_threshold + dir * brick_sz, brick_sz, dir,
                      Append(acc, <<current_open, j>>))
    ELSE [acc |-> acc, open |-> current_open, threshold |-> current_threshold]

RECURSIVE crossings_from(_, _, _, _, _, _, _)
crossings_from(j, end_idx, current_open, current_threshold, brick_sz, dir, acc) ==
    IF j > end_idx THEN acc
    ELSE LET r == crossings_at(j, current_open, current_threshold, brick_sz, dir, acc)
         IN  crossings_from(j + 1, end_idx, r.open, r.threshold, brick_sz, dir, r.acc)

find_threshold_crossings(start_idx, end_idx, start_threshold, brick_sz, dir) ==
    crossings_from(start_idx, end_idx, start_idx, start_threshold, brick_sz, dir, <<>>)

\* mutant of calc_up_brick_low: wick_mode "all" without the min against brick_open
calc_up_brick_low_no_min(pending_low_val, brick_open, brick_sz, apply_wick) ==
    IF request.wick_mode = "none" \/ ~apply_wick THEN brick_open
    ELSE IF request.wick_mode = "all" THEN pending_low_val
    ELSE IF request.wick_mode = "big"
         THEN IF round5(brick_open - pending_low_val) > brick_sz
              THEN pending_low_val ELSE brick_open
    ELSE brick_open

\* mutant of calc_up_brick_low: wick_mode "big" compares the unrounded retracement
calc_up_brick_low_unrounded(pending_low_val, brick_open, brick_sz, apply_wick) ==
    IF request.wick_mode = "none" \/ ~apply_wick THEN brick_open
    ELSE IF request.wick_mode = "all" THEN Min(pending_low_val, brick_open)
    ELSE IF request.wick_mode = "big"
         THEN IF brick_open - pending_low_val > brick_sz
              THEN pending_low_val ELSE brick_open
    ELSE brick_open

calc_up_brick_low(pending_low_val, brick_open, brick_sz, apply_wick) ==
    IF request.wick_mode = "none" \/ ~apply_wick THEN brick_open
    ELSE IF request.wick_mode = "all" THEN Min(pending_low_val, brick_open)
    ELSE IF request.wick_mode = "big"
         THEN IF round5(brick_open - pending_low_val) > brick_sz
              THEN pending_low_val ELSE brick_open
    ELSE brick_open

calc_down_brick_high(pending_high_val, brick_open, brick_sz, apply_wick) ==
    IF request.wick_mode = "none" \/ ~apply_wick THEN brick_open
    ELSE IF request.wick_mode = "all" THEN Max(pending_high_val, brick_open)
    ELSE IF request.wick_mode = "big"
         THEN IF round5(pending_high_val - brick_open) > brick_sz
              THEN pending_high_val ELSE brick_open
    ELSE brick_open

\* low_prices[a:b+1].min() and high_prices[a:b+1].max()
RECURSIVE range_low(_, _)
range_low(a, b) == IF a >= b THEN low_prices(a) ELSE Min(low_prices(a), range_low(a + 1, b))

RECURSIVE range_high(_, _)
range_high(a, b) == IF a >= b THEN high_prices(a) ELSE Max(high_prices(a), range_high(a + 1, b))


(***************************************************************************)
(* generate_renko_custom: the bricks of one batch                          *)
(***************************************************************************)
\* mutant of up_brick: the brick takes the sizes the schedule gives for the bar
\* that emits it instead of the active ones
up_brick_pending_sizes(brick_open, brick_low, is_rev, cross) ==
    LET p == get_schedule_values(size_schedule, i)
    IN  [open |-> brick_open, high |-> brick_open + p[1], low |-> brick_low,
         close |-> brick_open + p[1], direction |-> 1, is_reversal |-> is_rev,
         tick_index_open |-> cross[1], tick_index_close |-> cross[2],
         brick_size |-> p[1], reversal_size |-> p[2], adr_value |-> p[3]]

up_brick(brick_open, brick_low, is_rev, cross) ==
    [open |-> brick_open, high |-> brick_open + active_bs, low |-> brick_low,
     close |-> brick_open + active_bs, direction |-> 1, is_reversal |-> is_rev,
     tick_index_open |-> cross[1], tick_index_close |-> cross[2],
     brick_size |-> active_bs, reversal_size |-> active_rs, adr_value |-> active_adr]

down_brick(brick_open, brick_high, is_rev, cross) ==
    [open |-> brick_open, high |-> brick_high, low |-> brick_open - active_bs,
     close |-> brick_open - active_bs, direction |-> -1, is_reversal |-> is_rev,
     tick_index_open |-> cross[1], tick_index_close |-> cross[2],
     brick_size |-> active_bs, reversal_size |-> active_rs, adr_value |-> active_adr]

\* pending_high / pending_low after the update with bar i
bar_pending_high == Max(pending_high, high_prices(i))
bar_pending_low == Min(pending_low, low_prices(i))

\* mutant of up_continuation_low: the wick is applied to every brick of the batch
up_continuation_low_every_brick(idx, cross, brick_open) ==
    LET first_brick == (idx = 0)
        brick_pending_low == IF request.wick_mode = "all" /\ ~first_brick
                             THEN range_low(cross[1], cross[2]) ELSE bar_pending_low
    IN  calc_up_brick_low(brick_pending_low, brick_open, active_bs, TRUE)

\* continuation batches: idx is the 0-based position in the batch
up_continuation_low(idx, cross, brick_open) ==
    LET first_brick == (idx = 0)
        brick_pending_low == IF request.wick_mode = "all" /\ ~first_brick
                             THEN range_low(cross[1], cross[2]) ELSE bar_pending_low
    IN  calc_up_brick_low(brick_pending_low, brick_open, active_bs, first_brick)

down_continuation_high(idx, cross, brick_open) ==
    LET first_brick == (idx = 0)
        brick_pending_high == IF request.wick_mode = "all" /\ ~first_brick
                              THEN range_high(cross[1], cross[2]) ELSE bar_pending_high
    IN  calc_down_brick_high(brick_pending_high, brick_open, active_bs, first_brick)

\* reversal batches: the second brick (idx == 1) has its own branch
up_reversal_low(idx, cross, brick_open) ==
    LET first_brick == (idx = 0)
        brick_pending_low == IF request.wick_mode = "all" /\ ~first_brick
                             THEN range_low(cross[1], cross[2]) ELSE bar_pending_low
        brick_range_low == range_low(cross[1], cross[2])
    IN  IF idx = 1
        THEN IF request.wick_mode = "none" THEN brick_open
             ELSE IF request.wick_mode = "all" THEN Min(brick_range_low, brick_open)
             ELSE IF request.wick_mode = "big"
                  THEN IF round5(brick_open - brick_range_low) > active_bs
                       THEN brick_range_low ELSE brick_open
             ELSE brick_open
        ELSE calc_up_brick_low(brick_pending_low, brick_open, active_bs, first_brick)

down_reversal_high(idx, cross, brick_open) ==
    LET first_brick == (idx = 0)
        brick_pending_high == IF request.wick_mode = "all" /\ ~first_brick
                              THEN range_high(cross[1], cross[2]) ELSE bar_pending_high
        brick_range_high == range_high(cross[1], cross[2])
    IN  IF idx = 1
        THEN IF request.wick_mode = "none" THEN brick_open
             ELSE IF request.wick_mode = "all" THEN Max(brick_range_high, brick_open)
             ELSE IF request.wick_mode = "big"
                  THEN IF round5(brick_range_high - brick_open) > active_bs
                       THEN brick_range_high ELSE brick_open
             ELSE brick_open
        ELSE calc_down_brick_high(brick_pending_high, brick_open, active_bs, first_brick)

up_continuation_batch(crossings) ==
    [k \in 1..Len(crossings) |->
        LET brick_open == last_brick_close + (k - 1) * active_bs
        IN  up_brick(brick_open, up_continuation_low(k - 1, crossings[k], brick_open), 0, crossings[k])]

down_continuation_batch(crossings) ==
    [k \in 1..Len(crossings) |->
        LET brick_open == last_brick_close - (k - 1) * active_bs
        IN  down_brick(brick_open, down_continuation_high(k - 1, crossings[k], brick_open), 0, crossings[k])]

up_reversal_batch(crossings) ==
    [k \in 1..Len(crossings) |->
        LET brick_open == last_brick_close + (k - 1) * active_bs
        IN  up_brick(brick_open, up_reversal_low(k - 1, crossings[k], brick_open),
                     IF k = 1 THEN 1 ELSE 0, crossings[k])]

\* mutant of down_reversal_batch: the first brick of the batch is not flagged
down_reversal_batch_unflagged(crossings) ==
    [k \in 1..Len(crossings) |->
        LET brick_open == last_brick_close - (k - 1) * active_bs
        IN  down_brick(brick_open, down_reversal_high(k - 1, crossings[k], brick_open),
                       0, crossings[k])]

down_reversal_batch(crossings) ==
    [k \in 1..Len(crossings) |->
        LET brick_open == last_brick_close - (k - 1) * active_bs
        IN  down_brick(brick_open, down_reversal_high(k - 1, crossings[k], brick_open),
                       IF k = 1 THEN 1 ELSE 0, crossings[k])]

\* history of a batch emitted at loop index i
batch_history(n) == [k \in 1..n |-> [bar |-> i, idx |-> k - 1]]

(***************************************************************************)
(* Initial state: a request and the cached data it runs on                 *)
(***************************************************************************)
Requests ==
    { [sizing_mode |-> "price", wick_mode |-> w, brick_size |-> sz[1], reversal_size |-> sz[2],
       brick_pct |-> 10, reversal_pct |-> 20] : w \in WickModes, sz \in PriceSizes }
    \cup
    { [sizing_mode |-> "adr", wick_mode |-> w, brick_size |-> 1000, reversal_size |-> 2000,
       brick_pct |-> pct[1], reversal_pct |-> pct[2]] : w \in WickModes, pct \in AdrPcts }

\* the session and ADR functions and the backtest are not part of a run of the engine
SessionIdle == dt = [day |-> 0, hour |-> 0, minute |-> 0] /\ schedule = <<>> /\ session_date = NotCalled
AdrIdle == raw_df = <<>> /\ adr_period = 1 /\ adr_series = NotCalled

BacktestIdle ==
    /\ bt_request = <<>> /\ bt_df = <<>> /\ bt_pc = "idle"
    /\ all_entries = <<>> /\ errors_result = {} /\ entry_pos = 1
    /\ next_allowed_entry = 0 /\ trades_by_signal = <<>> /\ evaluated = <<>>
    /\ bt_response = NotCalled

SignalsIdle ==
    /\ signals_json = <<>> /\ json_at_start = <<>> /\ sig_request = <<>>
    /\ sig_pc = <<>> /\ sig_local = <<>> /\ sig_response = <<>>

StatsIdle ==
    /\ st_df = <<>>
    /\ st_ma = <<>>
    /\ st_smae = <<>>
    /\ st_i = 0
    /\ st_pc = "idle"
    /\ internal_type1 = 0
    /\ internal_type2 = 0
    /\ prev_state = <<>>
    /\ type1_count = <<>>
    /\ type2_count = <<>>
    /\ st_result = <<>>

CrossingIdle == fc_crossings = 0

Init ==
    /\ SessionIdle /\ AdrIdle /\ BacktestIdle /\ SignalsIdle /\ StatsIdle /\ CrossingIdle
    /\ request \in Requests
    /\ df \in DataFrames
    /\ adr_lookup \in IF request.sizing_mode = "adr"
                      THEN { [k \in 1..Len(df) |-> SessionADR[s[k]]] : s \in SessionsOf(Len(df)) }
                      ELSE { [k \in 1..Len(df) |-> None] }
    /\ size_schedule = NoSchedule
    /\ pc = "request"
    /\ status = 0
    /\ i = 0
    /\ active_bs = 0 /\ active_rs = 0 /\ active_adr = None
    /\ pending_bs = 0 /\ pending_rs = 0 /\ pending_adr = None
    /\ bricks = <<>>
    /\ last_brick_close = 0
    /\ direction = 0
    /\ up_threshold = 0 /\ down_threshold = 0
    /\ pending_high = 0 /\ pending_low = 0
    /\ tick_idx_open = 0
    /\ pending_brick = NoBrick
    /\ emitted_at = <<>>

(***************************************************************************)
(* get_renko_data up to the first loop iteration of generate_renko_custom  *)
(***************************************************************************)
RECURSIVE max_close(_)
max_close(n) == IF n = 1 THEN df[1].close ELSE Max(df[n].close, max_close(n - 1))

RECURSIVE min_close(_)
min_close(n) == IF n = 1 THEN df[1].close ELSE Min(df[n].close, min_close(n - 1))

get_renko_data ==
    /\ pc = "request"
    /\ LET built == IF request.sizing_mode = "adr"
                    THEN build_schedule(0, None, <<>>, request) ELSE NoSchedule
           brick_size == IF request.sizing_mode = "adr" /\ built # <<>>
                         THEN built[1][2] ELSE request.brick_size
           price_range == max_close(Len(df)) - min_close(Len(df))
           first == get_schedule_values(built, 0)
           ref_price == (open_prices(0) \div first[1]) * first[1]
       IN  IF (request.sizing_mode = "adr" /\ built = <<>>)     \* insufficient history
              \/ brick_size <= 0                                 \* invalid brick size
              \/ price_range > 100000 * brick_size               \* brick size too small
           THEN /\ pc' = "error"
                /\ status' = 400
                /\ UNCHANGED <<size_schedule, engine_vars>>
           ELSE IF Len(df) < 2
           THEN /\ pc' = "done"                                  \* empty frame, None
                /\ status' = 400                                 \* no bricks generated
                /\ size_schedule' = built
                /\ UNCHANGED engine_vars
           ELSE /\ pc' = "loop"
                /\ status' = 0
                /\ size_schedule' = built
                /\ active_bs' = first[1] /\ active_rs' = first[2] /\ active_adr' = first[3]
                /\ pending_bs' = first[1] /\ pending_rs' = first[2] /\ pending_adr' = first[3]
                /\ bricks' = <<>>
                /\ emitted_at' = <<>>
                /\ last_brick_close' = ref_price
                /\ direction' = 0
                /\ up_threshold' = ref_price + first[1]
                /\ down_threshold' = ref_price - first[1]
                /\ pending_high' = high_prices(0)
                /\ pending_low' = low_prices(0)
                /\ tick_idx_open' = 0
                /\ i' = 0
    /\ UNCHANGED <<request, df, adr_lookup, pending_brick, other_vars>>

(***************************************************************************)
(* generate_renko_custom: one iteration of the loop over the bars          *)
(***************************************************************************)
InLoop == pc = "loop" /\ i < Len(df)

price == close_prices(i)

\* pending_bs, pending_rs, pending_adr = get_schedule_values(i)
UpdatePending ==
    LET p == get_schedule_values(size_schedule, i)
    IN  pending_bs' = p[1] /\ pending_rs' = p[2] /\ pending_adr' = p[3]

\* active_bs, active_rs, active_adr = pending_bs, pending_rs, pending_adr
Promote ==
    /\ active_bs' = pending_bs' /\ active_rs' = pending_rs' /\ active_adr' = pending_adr'

Frame == UNCHANGED <<request, df, adr_lookup, size_schedule, pc, status, pending_brick, other_vars>>

\* what every emitting branch does after its bricks; up is the new direction
AfterBatch(batch, new_direction, multi) ==
    /\ bricks' = bricks \o batch
    /\ emitted_at' = emitted_at \o batch_history(Len(batch))
    /\ last_brick_close' = last_brick_close + new_direction * active_bs * Len(batch)
    /\ direction' = new_direction
    /\ UpdatePending
    /\ Promote
    /\ IF new_direction = 1
       THEN /\ up_threshold' = last_brick_close' + active_bs'
            /\ down_threshold' = last_brick_close' - active_rs'
            /\ pending_high' = high_prices(i)
            /\ pending_low' = IF multi THEN last_brick_close' ELSE low_prices(i)
       ELSE /\ down_threshold' = last_brick_close' - active_bs'
            /\ up_threshold' = last_brick_close' + active_rs'
            /\ pending_high' = IF multi THEN last_brick_close' ELSE high_prices(i)
            /\ pending_low' = low_prices(i)
    /\ tick_idx_open' = i
    /\ i' = i + 1
    /\ Frame

FirstUpBrick ==
    /\ InLoop /\ direction = 0
    /\ price >= up_threshold
    /\ AfterBatch(<<up_brick(last_brick_close,
                             calc_up_brick_low(bar_pending_low, last_brick_close, active_bs, TRUE),
                             0, <<tick_idx_open, i>>)>>, 1, FALSE)

FirstDownBrick ==
    /\ InLoop /\ direction = 0
    /\ ~(price >= up_threshold) /\ price <= down_threshold
    /\ AfterBatch(<<down_brick(last_brick_close,
                               calc_down_brick_high(bar_pending_high, last_brick_close, active_bs, TRUE),
                               0, <<tick_idx_open, i>>)>>, -1, FALSE)

UpContinuation ==
    /\ InLoop /\ direction = 1
    /\ price >= up_threshold
    /\ LET crossings == find_threshold_crossings(tick_idx_open, i, up_threshold, active_bs, 1)
       IN  AfterBatch(up_continuation_batch(crossings), 1, Len(crossings) > 1)

ReversalToDown ==
    /\ InLoop /\ direction = 1
    /\ ~(price >= up_threshold) /\ price <= down_threshold
    /\ LET first_brick_threshold == last_brick_close - active_bs
           crossings == find_threshold_crossings(tick_idx_open, i, first_brick_threshold, active_bs, -1)
       IN  AfterBatch(down_reversal_batch(crossings), -1, Len(crossings) > 1)

DownContinuation ==
    /\ InLoop /\ direction = -1
    /\ price <= down_threshold
    /\ LET crossings == find_threshold_crossings(tick_idx_open, i, down_threshold, active_bs, -1)
       IN  AfterBatch(down_continuation_batch(crossings), -1, Len(crossings) > 1)

ReversalToUp ==
    /\ InLoop /\ direction = -1
    /\ ~(price <= down_threshold) /\ price >= up_threshold
    /\ LET first_brick_threshold == last_brick_close + active_bs
           crossings == find_threshold_crossings(tick_idx_open, i, first_brick_threshold, active_bs, 1)
       IN  AfterBatch(up_reversal_batch(crossings), 1, Len(crossings) > 1)

\* the bar crosses neither threshold
NoCrossing ==
    /\ InLoop
    /\ ~(price >= up_threshold) /\ ~(price <= down_threshold)
    /\ UpdatePending
    /\ pending_high' = bar_pending_high
    /\ pending_low' = bar_pending_low
    /\ i' = i + 1
    /\ UNCHANGED <<active_bs, active_rs, active_adr, bricks, emitted_at, last_brick_close,
                   direction, up_threshold, down_threshold, tick_idx_open>>
    /\ Frame

\* mutant of BuildPendingBrick: a forming brick is reported although no brick
\* was ever completed (direction 0 is taken as down)
BuildPendingBrick_without_direction ==
    /\ pc = "loop" /\ i = Len(df)
    /\ LET last_idx == Len(df) - 1
           current_price == close_prices(last_idx)
           brick_open == last_brick_close
       IN  pending_brick' =
             IF direction = 1
             THEN << [open |-> brick_open, high |-> Max(current_price, brick_open),
                      low |-> calc_up_brick_low(pending_low, brick_open, active_bs, TRUE),
                      close |-> current_price, direction |-> direction,
                      tick_index_open |-> tick_idx_open, tick_index_close |-> last_idx,
                      brick_size |-> active_bs, reversal_size |-> active_rs,
                      adr_value |-> active_adr] >>
             ELSE << [open |-> brick_open,
                      high |-> calc_down_brick_high(pending_high, brick_open, active_bs, TRUE),
                      low |-> Min(current_price, brick_open),
                      close |-> current_price, direction |-> direction,
                      tick_index_open |-> tick_idx_open, tick_index_close |-> last_idx,
                      brick_size |-> active_bs, reversal_size |-> active_rs,
                      adr_value |-> active_adr] >>
    /\ pc' = "done"
    /\ status' = IF bricks = <<>> THEN 400 ELSE 200
    /\ UNCHANGED <<request, df, adr_lookup, size_schedule, engine_vars, other_vars>>

\* after the loop: the pending brick, and the handler's answer
BuildPendingBrick ==
    /\ pc = "loop" /\ i = Len(df)
    /\ LET last_idx == Len(df) - 1
           current_price == close_prices(last_idx)
           brick_open == last_brick_close
       IN  pending_brick' =
             IF direction = 0 THEN NoBrick
             ELSE IF direction = 1
             THEN << [open |-> brick_open, high |-> Max(current_price, brick_open),
                      low |-> calc_up_brick_low(pending_low, brick_open, active_bs, TRUE),
                      close |-> current_price, direction |-> direction,
                      tick_index_open |-> tick_idx_open, tick_index_close |-> last_idx,
                      brick_size |-> active_bs, reversal_size |-> active_rs,
                      adr_value |-> active_adr] >>
             ELSE << [open |-> brick_open,
                      high |-> calc_down_brick_high(pending_high, brick_open, active_bs, TRUE),
                      low |-> Min(current_price, brick_open),
                      close |-> current_price, direction |-> direction,
                      tick_index_open |-> tick_idx_open, tick_index_close |-> last_idx,
                      brick_size |-> active_bs, reversal_size |-> active_rs,
                      adr_value |-> active_adr] >>
    /\ pc' = "done"
    /\ status' = IF bricks = <<>> THEN 400 ELSE 200
    /\ UNCHANGED <<request, df, adr_lookup, size_schedule, engine_vars, other_vars>>

Next ==
    \/ get_renko_data
    \/ FirstUpBrick
    \/ FirstDownBrick
    \/ UpContinuation
    \/ ReversalToDown
    \/ DownContinuation
    \/ ReversalToUp
    \/ NoCrossing
    \/ BuildPendingBrick

Spec == Init /\ [][Next]_vars

(***************************************************************************)
(* Properties of the brick sequence                                        *)
(***************************************************************************)
Bricks == 1..Len(bricks)

\* C1: every emitted brick with a positive recorded size has
\* close = open + direction * brick_size, an UP brick has high = close, a DOWN
\* brick has low = close, and low <= min(open, close), high >= max(open, close).
C1_BrickGeometry ==
    \A k \in Bricks :
        LET b == bricks[k]
        IN  b.brick_size > 0 =>
              /\ b.close = b.open + b.direction * b.brick_size
              /\ (b.direction = 1 => b.high = b.close)
              /\ (b.direction = -1 => b.low = b.close)
              /\ b.low <= Min(b.open, b.close)
              /\ b.high >= Max(b.open, b.close)

\* an UP brick with a wick below its open and a DOWN brick with a wick above
\* its open, in a run with a size schedule
C1_Witness ==
    /\ size_schedule # NoSchedule
    /\ \E k \in Bricks : bricks[k].direction = 1 /\ bricks[k].low < bricks[k].open
    /\ \E k \in Bricks : bricks[k].direction = -1 /\ bricks[k].high > bricks[k].open

\* C2: every brick has tick_index_open <= tick_index_close, tick_index_open
\* never decreases along the sequence, and a brick's span ends no later than
\* the next brick's span starts.
C2_SourceSpans ==
    /\ \A k \in Bricks : bricks[k].tick_index_open <= bricks[k].tick_index_close
    /\ \A k \in Bricks : k < Len(bricks) =>
          /\ bricks[k].tick_index_open <= bricks[k + 1].tick_index_open
          /\ bricks[k].tick_index_close <= bricks[k + 1].tick_index_open

\* a batch of two bricks whose first brick spans several bars and closed on a
\* bar before the one that emitted the batch
C2_Witness ==
    \E k \in Bricks :
        /\ k < Len(bricks)
        /\ emitted_at[k].bar = emitted_at[k + 1].bar
        /\ bricks[k].tick_index_open < bricks[k].tick_index_close
        /\ bricks[k].tick_index_close < emitted_at[k].bar

\* C3: a brick has is_reversal = 1 only if it is the first brick of its batch
\* and the brick emitted immediately before it has the other direction; the
\* first brick of the sequence and the later bricks of a batch have 0.
C3_ReversalFlag ==
    \A k \in Bricks :
        bricks[k].is_reversal = 1 =>
            /\ emitted_at[k].idx = 0
            /\ k > 1
            /\ bricks[k - 1].direction # bricks[k].direction

\* the schedule entry with the greatest source_index <= bar (the first entry
\* when no entry starts that early)
EntryAt(bar) ==
    LET upto == { e \in 1..Len(size_schedule) : size_schedule[e][1] <= bar }
    IN  IF upto = {} THEN size_schedule[1]
        ELSE size_schedule[CHOOSE e \in upto : \A f \in upto : size_schedule[f][1] <= size_schedule[e][1]]

\* the bar of the emission batch before the batch of brick k, 0 if there is none
PreviousBatchBar(k) ==
    LET first == k - emitted_at[k].idx
    IN  IF first = 1 THEN 0 ELSE emitted_at[first - 1].bar

\* C4: with a size schedule, every brick carries the brick_size and
\* reversal_size of the schedule entry with the greatest source_index <= the
\* bar of the previous emission batch (the first entry if no batch preceded),
\* whatever the schedule says at the bar that emits it.
C4_SizesOfPreviousBatch ==
    size_schedule # NoSchedule =>
        \A k \in Bricks :
            /\ bricks[k].brick_size = EntryAt(PreviousBatchBar(k))[2]
            /\ bricks[k].reversal_size = EntryAt(PreviousBatchBar(k))[3]

\* the schedule of two consecutive sessions with ADR 0.0100 then 0.0080 and
\* brick_pct = 10
TwoSessions ==
    /\ size_schedule # NoSchedule
    /\ Len(size_schedule) = 2
    /\ size_schedule[1][4] = 10000 /\ size_schedule[1][2] = 1000
    /\ size_schedule[2][4] = 8000 /\ size_schedule[2][2] = 800

\* brick k is the first brick completed on a bar of the new session
FirstOfNewSession(k) ==
    /\ bricks[k].tick_index_close >= size_schedule[2][1]
    /\ \A m \in 1..(k - 1) : bricks[m].tick_index_close < size_schedule[2][1]

\* the bar at which the batch of brick k started forming
BatchStart(k) == bricks[k - emitted_at[k].idx].tick_index_open

\* C5 as stated: the first brick completed under the new session has
\* brick_size = 0.0008.
C5_FirstBrickHasNewSize ==
    TwoSessions => \A k \in Bricks : FirstOfNewSession(k) => bricks[k].brick_size = 800

\* C5 amended: the first brick completed under the new session has the brick
\* size of the session in which its batch started forming: 0.0010 when that bar
\* is in the old session, 0.0008 only when it is in the new one.
C5_FirstBrickHasSizeOfItsStart ==
    TwoSessions =>
        \A k \in Bricks :
            FirstOfNewSession(k) =>
                bricks[k].brick_size =
                    IF BatchStart(k) < size_schedule[2][1] THEN 1000 ELSE 800

\* the first brick of the new session was completed with 0.0010 and a brick
\* after it with 0.0008
C5_Witness ==
    /\ TwoSessions
    /\ \E k \in Bricks :
          /\ FirstOfNewSession(k)
          /\ bricks[k].brick_size = 1000
          /\ \E m \in Bricks : m > k /\ bricks[m].brick_size = 800

\* C6: with wick_mode = all every UP brick has low = min(open, lowest raw low
\* over the bars tick_index_open..tick_index_close) and every DOWN brick has
\* high = max(open, highest raw high over that span).
C6_WickAllOverSpan ==
    request.wick_mode = "all" =>
        \A k \in Bricks :
            LET b == bricks[k]
            IN  /\ b.direction = 1 =>
                     b.low = Min(b.open, range_low(b.tick_index_open, b.tick_index_close))
                /\ b.direction = -1 =>
                     b.high = Max(b.open, range_high(b.tick_index_open, b.tick_index_close))

\* brick k belongs to a reversal batch (the first brick of such a batch is flagged)
InReversalBatch(k) == bricks[k - emitted_at[k].idx].is_reversal = 1

\* the wick of brick k: how far its low (UP) or high (DOWN) lies beyond its open
Wick(k) ==
    IF bricks[k].direction = 1 THEN bricks[k].open - bricks[k].low
    ELSE bricks[k].high - bricks[k].open

\* the retracement of brick k over the raw bars of its own span
SpanRetracement(k) ==
    IF bricks[k].direction = 1
    THEN bricks[k].open - range_low(bricks[k].tick_index_open, bricks[k].tick_index_close)
    ELSE range_high(bricks[k].tick_index_open, bricks[k].tick_index_close) - bricks[k].open

\* a wick is present only with a rounded retracement above the brick size
BigWickOnlyAboveBrickSize(k) ==
    Wick(k) # 0 => round5(Wick(k)) > bricks[k].brick_size

\* the single UP brick from 1.0000 with span low 0.99995 and brick size 0.0010
BigWickExample(k) ==
    /\ k = 1 /\ bricks[k].direction = 1 /\ bricks[k].open = Base
    /\ bricks[k].brick_size = 1000
    /\ range_low(0, bricks[k].tick_index_close) = Base - 50

\* C7 as stated: with wick_mode = big only the first brick of a batch can have
\* a wick, and only with a rounded retracement strictly above the brick size;
\* every later brick of a batch has low = open (UP) or high = open (DOWN).
C7_BigWickFirstBrickOnly ==
    request.wick_mode = "big" =>
        \A k \in Bricks :
            /\ BigWickOnlyAboveBrickSize(k)
            /\ emitted_at[k].idx > 0 => Wick(k) = 0
            /\ BigWickExample(k) => bricks[k].low = Base

\* C7 amended: as stated, except that the second brick of a reversal batch has
\* the big-wick rule applied to the raw lows (highs) of its own span.
C7_BigWickFirstAndSecondOfReversal ==
    request.wick_mode = "big" =>
        \A k \in Bricks :
            /\ BigWickOnlyAboveBrickSize(k)
            /\ (emitted_at[k].idx > 0 /\ ~(emitted_at[k].idx = 1 /\ InReversalBatch(k)))
                  => Wick(k) = 0
            /\ (emitted_at[k].idx = 1 /\ InReversalBatch(k))
                  => Wick(k) = IF round5(SpanRetracement(k)) > bricks[k].brick_size
                               THEN SpanRetracement(k) ELSE 0
            /\ BigWickExample(k) => bricks[k].low = Base

\* big mode: the example brick, followed by a reversal batch whose second
\* brick has a wick
C7_Witness ==
    /\ request.wick_mode = "big"
    /\ Len(bricks) >= 3
    /\ BigWickExample(1)
    /\ \E k \in Bricks : emitted_at[k].idx = 1 /\ InReversalBatch(k) /\ Wick(k) > 0

\* brick k is the last brick of a continuation batch, emitted at bar emitted_at[k].bar
LastOfContinuation(k) ==
    /\ k - emitted_at[k].idx > 1
    /\ ~InReversalBatch(k)
    /\ (k = Len(bricks) \/ emitted_at[k + 1].idx = 0)

\* C8: a continuation batch emits, in price order, the bricks of the thresholds
\* the close of its bar has reached: each brick opens at the close of the one
\* before it, and the close c of the last brick has c <= close[i] < c + brick
\* going up, c - brick < close[i] <= c going down.
C8_ContinuationFollowsClose ==
    \A k \in Bricks :
        /\ (k > 1 /\ ~InReversalBatch(k)) => bricks[k].open = bricks[k - 1].close
        /\ LastOfContinuation(k) =>
              LET b == bricks[k]
                  p == close_prices(emitted_at[k].bar)
              IN  IF b.direction = 1
                  THEN b.close <= p /\ p < b.close + b.brick_size
                  ELSE b.close >= p /\ p > b.close - b.brick_size

\* the bricks a step appends
NewBricks == SubSeq(bricks', Len(bricks) + 1, Len(bricks'))

\* a reversal batch away from last close L in direction dir: it is not empty,
\* starts at L, every brick is one active brick size long and opens where the
\* one before it closed, and only the first brick is flagged
ReversalBatchFrom(batch, L, dir) ==
    /\ Len(batch) >= 1
    /\ batch[1].open = L
    /\ \A k \in 1..Len(batch) :
          /\ batch[k].direction = dir
          /\ batch[k].close = batch[k].open + dir * active_bs
          /\ batch[k].is_reversal = (IF k = 1 THEN 1 ELSE 0)
          /\ k > 1 => batch[k].open = batch[k - 1].close

\* C9: a bar that closes at or beyond last_close -/+ active reversal size
\* against the direction makes the step emit a reversal batch from last_close;
\* with brick 0.0010, reversal 0.0020, L = 1.0010 and p = 0.9988 the batch is
\* 1.0010 -> 1.0000 (is_reversal 1) and 1.0000 -> 0.9990 (is_reversal 0).
C9_ReversalBatch ==
    [][ (InLoop /\ direction # 0 /\ active_rs > 0
         /\ direction * (last_brick_close - price) >= active_rs)
        => /\ ReversalBatchFrom(NewBricks, last_brick_close, -direction)
           /\ (direction = 1 /\ active_bs = 1000 /\ active_rs = 2000
                /\ last_brick_close = Base + 1000 /\ price = Base - 1200)
                => /\ Len(NewBricks) = 2
                   /\ NewBricks[1].close = Base /\ NewBricks[2].close = Base - 1000 ]_vars

\* the continuation scenario: brick 0.0010, reversal 0.0020, wick_mode = all and
\* the three bars of the scenario
Scenario10 ==
    /\ request.sizing_mode = "price" /\ request.wick_mode = "all"
    /\ request.brick_size = 1000 /\ request.reversal_size = 2000
    /\ df = << Bar(0, 500, -200, 300), Bar(300, 1500, 200, 1200), Bar(1200, 3200, 1100, 3100) >>

Scenario10Bricks ==
    /\ (pc = "loop" /\ i = 2) =>
          /\ Len(bricks) = 1
          /\ bricks[1].open = Base /\ bricks[1].close = Base + 1000
          /\ bricks[1].high = Base + 1000 /\ bricks[1].low = Base - 200
    /\ pc = "done" =>
          /\ Len(bricks) = 3
          /\ bricks[2].open = Base + 1000 /\ bricks[2].close = Base + 2000
          /\ bricks[3].open = Base + 2000 /\ bricks[3].close = Base + 3000
          /\ \A k \in Bricks : bricks[k].direction = 1

\* C10 as stated: the third bar adds exactly the UP bricks 1.0010 -> 1.0020 and
\* 1.0020 -> 1.0030 and both have low = open.
C10_BothLowsAtOpen ==
    Scenario10 =>
        /\ Scenario10Bricks
        /\ pc = "done" => (bricks[2].low = bricks[2].open /\ bricks[3].low = bricks[3].open)

\* C10 amended: the third bar adds exactly those two UP bricks; the first has
\* low = 1.0002, the low carried over from bar 1, and the second has low = open.
C10_FirstLowCarriedOver ==
    Scenario10 =>
        /\ Scenario10Bricks
        /\ pc = "done" => (bricks[2].low = Base + 200 /\ bricks[3].low = bricks[3].open)

\* the scenario has run to its end
C10_Witness == Scenario10 /\ pc = "done" /\ Len(bricks) = 3

(***************************************************************************)
(* Properties of the pending brick                                         *)
(***************************************************************************)
\* the first thresholds of the run: ref_price +/- the first brick size
FirstSize == get_schedule_values(size_schedule, 0)[1]
RefPrice == (open_prices(0) \div FirstSize) * FirstSize

\* no close of the input reaches the first up or down threshold
NeverCrosses ==
    \A j \in 0..(Len(df) - 1) :
        close_prices(j) < RefPrice + FirstSize /\ close_prices(j) > RefPrice - FirstSize

\* C11: when generate_renko_custom has returned, there is a pending brick if and
\* only if direction is not 0; fewer than 2 bars, or closes that never reach the
\* first up/down threshold, give no brick and no pending brick; otherwise the
\* pending brick has open = close of the last emitted brick, close = close of
\* the last input bar and direction = the current direction.
C11_PendingBrick ==
    pc = "done" =>
        /\ (pending_brick # NoBrick) <=> (direction # 0)
        /\ (Len(df) < 2 \/ NeverCrosses) => (bricks = <<>> /\ pending_brick = NoBrick)
        /\ ~(Len(df) < 2 \/ NeverCrosses) =>
              /\ pending_brick # NoBrick
              /\ bricks # <<>>
              /\ pending_brick[1].open = bricks[Len(bricks)].close
              /\ pending_brick[1].close = close_prices(Len(df) - 1)
              /\ pending_brick[1].direction = direction

\* a run that ends with a forming brick away from its open, after a reversal
C11_Witness ==
    /\ pc = "done" /\ pending_brick # NoBrick
    /\ Len(bricks) >= 2 /\ direction = -1
    /\ pending_brick[1].close # pending_brick[1].open

\* a run of at least 2 bars that never reaches a threshold
C11_WitnessNoBrick == pc = "done" /\ Len(df) >= 2 /\ NeverCrosses /\ bricks = <<>>

(***************************************************************************)
(* _get_session_date                                                       *)
(***************************************************************************)
MaxDay == 13          \* timestamps lie on the days 0..MaxDay, day 0 being a Monday

\* dt.weekday(): 0 = Monday .. 6 = Sunday
weekday(day) == day % 7

\* hour and minute of the timestamps: around the boundaries of Schedules
TimesOfDay == { <<0, 0>>, <<16, 59>>, <<17, 0>>, <<21, 29>>, <<21, 30>>, <<21, 59>>,
                <<22, 0>>, <<22, 29>>, <<22, 30>>, <<23, 59>> }

Timestamps == { [day |-> d, hour |-> t[1], minute |-> t[2]] : d \in 0..MaxDay, t \in TimesOfDay }

\* _default_schedule()
default_schedule == [d \in 0..4 |-> [hour |-> 22, minute |-> 0]]

\* the empty schedule, the default one, one with two weekdays, one whose
\* entries lack a field
Schedules ==
    { [d \in {} |-> [hour |-> 22, minute |-> 0]],
      default_schedule,
      (0 :> [hour |-> 17, minute |-> 0]) @@ (4 :> [hour |-> 21, minute |-> 30]),
      (1 :> [hour |-> None, minute |-> 30]) @@ (3 :> [hour |-> 0, minute |-> None]) }

\* mutant of days_to_mon: the conditional expression read as 7 - (dow or 0) + 1
days_to_mon_misread(dow) == 7 - (IF dow = 5 THEN dow ELSE 0) + 1

\* days_to_mon = 7 - dow if dow == 5 else 0 + 1
days_to_mon(dow) == IF dow = 5 THEN 7 - dow ELSE 0 + 1

\* mutant of before_boundary: a timestamp on the boundary stays in today's session
before_boundary_inclusive(minute_of_day, boundary_min) == minute_of_day <= boundary_min

before_boundary(minute_of_day, boundary_min) == minute_of_day < boundary_min

\* mutant of get_session_date: the day after the boundary is taken as it is
get_session_date_next_day(t, sched) ==
    LET dow == weekday(t.day)
    IN  IF dow \in {5, 6}
        THEN t.day + days_to_mon(dow)
        ELSE LET has_key == dow \in DOMAIN sched
                 boundary_h == IF has_key /\ sched[dow].hour # None THEN sched[dow].hour ELSE 22
                 boundary_m == IF has_key /\ sched[dow].minute # None THEN sched[dow].minute ELSE 0
                 minute_of_day == t.hour * 60 + t.minute
                 boundary_min == boundary_h * 60 + boundary_m
             IN  IF before_boundary(minute_of_day, boundary_min) THEN t.day ELSE t.day + 1

get_session_date(t, sched) ==
    LET dow == weekday(t.day)
    IN  IF dow \in {5, 6}
        THEN t.day + days_to_mon(dow)
        ELSE LET has_key == dow \in DOMAIN sched
                 boundary_h == IF has_key /\ sched[dow].hour # None THEN sched[dow].hour ELSE 22
                 boundary_m == IF has_key /\ sched[dow].minute # None THEN sched[dow].minute ELSE 0
                 minute_of_day == t.hour * 60 + t.minute
                 boundary_min == boundary_h * 60 + boundary_m
                 next_dt == t.day + 1
             IN  IF before_boundary(minute_of_day, boundary_min)
                 THEN t.day
                 ELSE IF weekday(next_dt) = 5 THEN next_dt + 2
                 ELSE IF weekday(next_dt) = 6 THEN next_dt + 1
                 ELSE next_dt

\* the engine is not part of a call of the session or ADR functions
EngineIdle ==
    /\ request = [sizing_mode |-> "price", wick_mode |-> "all", brick_size |-> 1000,
                  reversal_size |-> 2000, brick_pct |-> 10, reversal_pct |-> 20]
    /\ df = <<>> /\ adr_lookup = <<>> /\ size_schedule = NoSchedule
    /\ pc = "idle" /\ status = 0 /\ i = 0
    /\ active_bs = 0 /\ active_rs = 0 /\ active_adr = None
    /\ pending_bs = 0 /\ pending_rs = 0 /\ pending_adr = None
    /\ bricks = <<>> /\ last_brick_close = 0 /\ direction = 0
    /\ up_threshold = 0 /\ down_threshold = 0
    /\ pending_high = 0 /\ pending_low = 0
    /\ tick_idx_open = 0 /\ pending_brick = NoBrick /\ emitted_at = <<>>

engine_all_vars == <<request, df, adr_lookup, size_schedule, pc, status, pending_brick, engine_vars>>

SessionInit ==
    /\ EngineIdle /\ AdrIdle /\ BacktestIdle /\ SignalsIdle /\ StatsIdle /\ CrossingIdle
    /\ dt \in Timestamps
    /\ schedule \in Schedules
    /\ session_date = NotCalled

\* one call _get_session_date(dt, schedule)
GetSessionDate ==
    /\ session_date = NotCalled
    /\ session_date' = <<get_session_date(dt, schedule)>>
    /\ UNCHANGED <<dt, schedule, adr_vars, bt_vars, engine_all_vars, sig_vars, stats_vars, crossing_vars>>

SessionNext == GetSessionDate

SessionSpec == SessionInit /\ [][SessionNext]_vars

(***************************************************************************)
(* Properties of _get_session_date                                         *)
(***************************************************************************)
IsWeekend(day) == weekday(day) \in {5, 6}

\* the first Monday after day
FollowingMonday(day) == CHOOSE e \in (day + 1)..(day + 7) : weekday(e) = 0

\* the first day after day that is not a Saturday or a Sunday
NextNonWeekend(day) ==
    CHOOSE e \in (day + 1)..(day + 3) :
        ~IsWeekend(e) /\ \A f \in (day + 1)..(e - 1) : IsWeekend(f)

\* the boundary h*60+m of a weekday, 22:00 for a weekday missing from the schedule
BoundaryOf(dow) ==
    IF dow \notin DOMAIN schedule THEN 22 * 60
    ELSE (IF schedule[dow].hour = None THEN 22 ELSE schedule[dow].hour) * 60
         + (IF schedule[dow].minute = None THEN 0 ELSE schedule[dow].minute)

MinuteOfDay == dt.hour * 60 + dt.minute

\* C12: a Saturday or Sunday timestamp maps to the following Monday; a
\* Monday-Friday timestamp strictly before its weekday's boundary maps to its
\* own date; at or after the boundary it maps to the next non-weekend day
\* (Friday to the following Monday); a weekday missing from the schedule has
\* the boundary 22:00.
C12_SessionDate ==
    session_date # NotCalled =>
        /\ IsWeekend(dt.day) => session_date[1] = FollowingMonday(dt.day)
        /\ (~IsWeekend(dt.day) /\ MinuteOfDay < BoundaryOf(weekday(dt.day)))
              => session_date[1] = dt.day
        /\ (~IsWeekend(dt.day) /\ MinuteOfDay >= BoundaryOf(weekday(dt.day)))
              => /\ session_date[1] = NextNonWeekend(dt.day)
                 /\ weekday(dt.day) = 4 => session_date[1] = FollowingMonday(dt.day)

\* a Friday timestamp exactly on a 21:30 boundary, mapped to the Monday after
C12_Witness ==
    /\ session_date # NotCalled
    /\ weekday(dt.day) = 4 /\ dt.hour = 21 /\ dt.minute = 30
    /\ 4 \in DOMAIN schedule /\ schedule[4].minute = 30
    /\ session_date[1] = dt.day + 3

(***************************************************************************)
(* compute_adr_lookup                                                      *)
(***************************************************************************)
MaxRows == 5          \* rows of raw_df
MaxPeriod == 2        \* adr_period is 1..MaxPeriod

NaN == <<>>           \* a missing ADR; <<s, n>> is the mean s / n

\* the timestamps raw_df is drawn from, in time order: sessions of Monday,
\* Tuesday (two rows), Thursday, the Monday after (two rows) and the Tuesday after
AdrTimestamps ==
    << [day |-> 0, hour |-> 10, minute |-> 0],
       [day |-> 0, hour |-> 22, minute |-> 30],
       [day |-> 1, hour |-> 12, minute |-> 0],
       [day |-> 2, hour |-> 23, minute |-> 0],
       [day |-> 4, hour |-> 22, minute |-> 0],
       [day |-> 5, hour |-> 12, minute |-> 0],
       [day |-> 8, hour |-> 12, minute |-> 0] >>

\* (high, low) of a row
HighLows == { <<Base + 10000, Base - 20000>>, <<Base + 30000, Base + 5000>> }

\* the k-th smallest element of a non-empty set of integers, as a sorted sequence
RECURSIVE sorted(_)
sorted(S) ==
    IF S = {} THEN <<>>
    ELSE LET m == CHOOSE x \in S : \A y \in S : x <= y
         IN  <<m>> \o sorted(S \ {m})

\* raw_df.sort_index(): rows at strictly increasing timestamps
RawFrames ==
    UNION { { [k \in 1..Len(sorted(T)) |->
                 [datetime |-> AdrTimestamps[sorted(T)[k]], high |-> hl[k][1], low |-> hl[k][2]]]
              : hl \in [1..Cardinality(T) -> HighLows] }
            : T \in { U \in SUBSET (1..Len(AdrTimestamps)) : U # {} /\ Cardinality(U) <= MaxRows } }

\* schedule = session_schedule or _default_schedule()
effective_schedule(sched) == IF DOMAIN sched = {} THEN default_schedule ELSE sched

\* tmp['utc_date']
utc_date(row) == get_session_date(row.datetime, effective_schedule(schedule))

\* groupby('utc_date'): the group keys in ascending order
group_keys == sorted({ utc_date(raw_df[k]) : k \in 1..Len(raw_df) })

RECURSIVE set_max(_)
set_max(S) == LET x == CHOOSE y \in S : TRUE
              IN  IF S = {x} THEN x ELSE Max(x, set_max(S \ {x}))

RECURSIVE set_min(_)
set_min(S) == LET x == CHOOSE y \in S : TRUE
              IN  IF S = {x} THEN x ELSE Min(x, set_min(S \ {x}))

day_high(d) == set_max({ raw_df[k].high : k \in { j \in 1..Len(raw_df) : utc_date(raw_df[j]) = d } })
day_low(d) == set_min({ raw_df[k].low : k \in { j \in 1..Len(raw_df) : utc_date(raw_df[j]) = d } })

\* daily_stats['daily_range'], one value per group key
daily_range == [k \in 1..Len(group_keys) |-> <<day_high(group_keys[k]) - day_low(group_keys[k])>>]

\* mutant of shift: the column is not shifted, so a session counts in its own ADR
shift_none(col, periods) == col

\* Series.shift(periods): <<v>> is a value, NaN a missing one
shift(col, periods) == [k \in 1..Len(col) |-> IF k - periods >= 1 THEN col[k - periods] ELSE NaN]

RECURSIVE sum_over(_, _)
sum_over(col, K) ==
    IF K = {} THEN 0
    ELSE LET k == CHOOSE x \in K : TRUE IN col[k][1] + sum_over(col, K \ {k})

\* Series.rolling(window, min_periods).mean()
rolling_mean(col, window, min_periods) ==
    [k \in 1..Len(col) |->
        LET obs == { j \in Max(1, k - window + 1)..k : col[j] # NaN }
        IN  IF Cardinality(obs) >= min_periods /\ obs # {}
            THEN <<sum_over(col, obs), Cardinality(obs)>> ELSE NaN]

\* the returned Series daily_stats['adr'], keyed by session date
adr_of_sessions ==
    LET adr == rolling_mean(shift(daily_range, 1), adr_period, adr_period)
    IN  [d \in { group_keys[k] : k \in 1..Len(group_keys) } |->
            adr[CHOOSE k \in 1..Len(group_keys) : group_keys[k] = d]]

AdrInit ==
    /\ EngineIdle /\ BacktestIdle /\ SignalsIdle /\ StatsIdle /\ CrossingIdle
    /\ dt = [day |-> 0, hour |-> 0, minute |-> 0] /\ session_date = NotCalled
    /\ schedule \in Schedules
    /\ raw_df \in RawFrames
    /\ adr_period \in 1..MaxPeriod
    /\ adr_series = NotCalled

\* one call compute_adr_lookup(raw_df, adr_period, schedule)
compute_adr_lookup ==
    /\ adr_series = NotCalled
    /\ adr_series' = <<adr_of_sessions>>
    /\ UNCHANGED <<raw_df, adr_period, session_vars, bt_vars, engine_all_vars, sig_vars, stats_vars, crossing_vars>>

AdrNext == compute_adr_lookup

AdrSpec == AdrInit /\ [][AdrNext]_vars

(***************************************************************************)
(* Properties of compute_adr_lookup                                        *)
(***************************************************************************)
\* the session dates present in the data and the rows of one of them
SessionDates == { utc_date(raw_df[k]) : k \in 1..Len(raw_df) }
RowsOf(d) == { k \in 1..Len(raw_df) : utc_date(raw_df[k]) = d }

\* max high - min low of a session
RangeOf(d) ==
    LET hi == CHOOSE h \in { raw_df[k].high : k \in RowsOf(d) } :
                  \A k \in RowsOf(d) : raw_df[k].high <= h
        lo == CHOOSE l \in { raw_df[k].low : k \in RowsOf(d) } :
                  \A k \in RowsOf(d) : raw_df[k].low >= l
    IN  hi - lo

\* the session dates before d, and the n of them closest to d
Before(d) == { e \in SessionDates : e < d }
PriorN(d, n) == { e \in Before(d) : Cardinality({ f \in Before(d) : f > e }) < n }

RECURSIVE SumOfRanges(_)
SumOfRanges(D) ==
    IF D = {} THEN 0 ELSE LET d == CHOOSE x \in D : TRUE IN RangeOf(d) + SumOfRanges(D \ {d})

\* C13: the Series has one entry per session date of the data; ADR(d) is the
\* mean of the daily ranges of the adr_period session dates immediately before
\* d, d excluded; it is missing for the first adr_period session dates and
\* present for every later one.
C13_AdrOfPriorSessions ==
    adr_series # NotCalled =>
        /\ DOMAIN adr_series[1] = SessionDates
        /\ \A d \in SessionDates :
              IF Cardinality(Before(d)) < adr_period
              THEN adr_series[1][d] = NaN
              ELSE adr_series[1][d] = <<SumOfRanges(PriorN(d, adr_period)), adr_period>>

\* four sessions with a period of 2: two missing values, then two means that
\* differ and the last of which leaves the first session out
C13_Witness ==
    /\ adr_series # NotCalled
    /\ adr_period = 2 /\ Cardinality(SessionDates) = 4
    /\ \E d, e \in SessionDates :
          /\ d < e /\ adr_series[1][d] # NaN /\ adr_series[1][e] # NaN
          /\ adr_series[1][d] # adr_series[1][e]
    /\ \E d \in SessionDates : Cardinality(RowsOf(d)) = 2

(***************************************************************************)
(* Properties of the size schedule                                         *)
(***************************************************************************)
\* get_renko_data has built the ADR schedule and handed it to the engine
ScheduleBuilt == request.sizing_mode = "adr" /\ pc \in {"loop", "done"}

ScheduleStrictlyIncreasing ==
    ScheduleBuilt =>
        \A k \in 1..(Len(size_schedule) - 1) : size_schedule[k][1] < size_schedule[k + 1][1]

\* C14: the ADR-mode schedule is sorted by source_index strictly increasing and
\* its first entry has source_index 0, so every bar index has an entry with
\* source_index <= it.
C14_ScheduleFromZero ==
    ScheduleBuilt =>
        /\ size_schedule # NoSchedule
        /\ \A k \in 1..(Len(size_schedule) - 1) : size_schedule[k][1] < size_schedule[k + 1][1]
        /\ size_schedule[1][1] = 0
        /\ \A j \in 0..(Len(df) - 1) : \E k \in 1..Len(size_schedule) : size_schedule[k][1] <= j

(***************************************************************************)
(* Properties of the validation in get_renko_data                          *)
(***************************************************************************)
\* the request asks for a reversal size below the brick size
ReversalBelowBrick ==
    IF request.sizing_mode = "adr"
    THEN request.reversal_pct < request.brick_pct
    ELSE request.reversal_size < request.brick_size

\* C15: a request whose reversal size is below its brick size is rejected before
\* the engine runs, so every size the engine uses has brick_size > 0 and
\* reversal_size >= brick_size.
C15_InvalidConfigRejected ==
    /\ (ReversalBelowBrick /\ pc # "request") => (pc = "error" /\ status = 400)
    /\ (pc \in {"loop", "done"} /\ Len(df) >= 2) =>
          /\ active_bs > 0 /\ active_rs >= active_bs
          /\ pending_bs > 0 /\ pending_rs >= pending_bs

(***************************************************************************)
(* backtest_signals                                                        *)
(***************************************************************************)
MaxBtBars == 4        \* rows of the parquet file

\* a row of the parquet file; prices in units of 1e-6 like the bars
BtRow(o, c, adr, ema) ==
    [open |-> o, close |-> c, reversal_size |-> 2000, currentADR |-> adr, ema |-> ema]

BtRows ==
    { BtRow(1198000, 1200000, 8000, 1199000),    \* UP   1.1980 -> 1.2000
      BtRow(1200000, 1198500, 8000, 1199000),    \* DOWN 1.2000 -> 1.1985, below its EMA
      BtRow(1200000, 1198000, 8000, 1197000),    \* DOWN 1.2000 -> 1.1980, above its EMA
      BtRow(1202000, 1204500, 8000, None),       \* UP   1.2020 -> 1.2045, no EMA yet
      BtRow(1198500, 1196000, None, 1199000) }   \* DOWN 1.1985 -> 1.1960, no ADR yet

BtFrames == UNION { [1..n -> BtRows] : n \in 2..MaxBtBars }

\* what df.query(expression) does with the expression of a signal
Expressions == {"all", "up", "down", "bad", ""}

Signal(nm, e) == [name |-> nm, expression |-> e]

SignalLists ==
    { <<Signal("s1", "up"), Signal("s2", "all")>>,
      <<Signal("s1", "all"), Signal("s2", "down")>>,
      <<Signal("s1", "bad"), Signal("s2", ""), Signal("s3", "all")>> }

\* stop_value and target_value in hundredths
BacktestRequests ==
    { [signals |-> sg, stop_type |-> u[1], report_unit |-> u[2],
       stop_value |-> IF u[1] = "adr" THEN 50 ELSE 100,
       target_type |-> t,
       target_value |-> IF t = "fixed_rr" THEN 100 ELSE IF t = "fixed_adr" THEN 25 ELSE 0,
       allow_overlap |-> ov]
      : sg \in SignalLists, u \in { <<"rr", "rr">>, <<"adr", "adr">>, <<"rr", "adr">> },
        t \in {"fixed_rr", "fixed_adr", "ma_trail", "color_change"}, ov \in BOOLEAN }

n_rows == Len(bt_df)
close_arr(j) == bt_df[j + 1].close
is_up_arr(j) == bt_df[j + 1].close > bt_df[j + 1].open
rev_arr(j) == bt_df[j + 1].reversal_size
adr_arr(j) == bt_df[j + 1].currentADR
ema_values(j) == bt_df[j + 1].ema

\* the row labels df.query(expression) returns, in row order; "bad" raises
query(expression) ==
    LET keep(j) == \/ expression = "all"
                   \/ expression = "up" /\ is_up_arr(j)
                   \/ expression = "down" /\ ~is_up_arr(j)
    IN  SelectSeq([k \in 1..n_rows |-> k - 1], keep)

\* step 1: the pairs of the signals k.. of the request, in request order
RECURSIVE collect(_, _)
collect(k, acc) ==
    IF k > Len(bt_request.signals) THEN acc
    ELSE LET signal == bt_request.signals[k]
         IN  IF signal.expression = "" \/ signal.expression = "bad"
             THEN collect(k + 1, acc)
             ELSE LET subset == query(signal.expression)
                  IN  collect(k + 1, acc \o [m \in 1..Len(subset) |-> <<subset[m], signal.name>>])

collect_errors == { bt_request.signals[k].name : k \in { m \in 1..Len(bt_request.signals) :
                                                          bt_request.signals[m].expression = "bad" } }

\* mutant of insert_sorted: a pair goes before the pairs with the same index
insert_sorted_before_ties(seq, e) ==
    LET before == SelectSeq(seq, LAMBDA x : x[1] < e[1])
        after == SelectSeq(seq, LAMBDA x : x[1] >= e[1])
    IN  before \o <<e>> \o after

\* list.sort(key=entry index) is stable: a pair stays behind the pairs with the same index
insert_sorted(seq, e) ==
    LET before == SelectSeq(seq, LAMBDA x : x[1] <= e[1])
        after == SelectSeq(seq, LAMBDA x : x[1] > e[1])
    IN  before \o <<e>> \o after

RECURSIVE sort_entries(_, _)
sort_entries(seq, acc) ==
    IF seq = <<>> THEN acc ELSE sort_entries(Tail(seq), insert_sorted(acc, Head(seq)))

\* the quantities of one entry at row e (0-based)
entry_is_up(e) == is_up_arr(e)

\* stop_dist and target_dist times 100 (the values are in hundredths); None is NaN
stop_dist(e) ==
    IF bt_request.stop_type = "adr"
    THEN IF adr_arr(e) = None THEN None       \* max(nan, x) is nan
         ELSE Max(bt_request.stop_value * adr_arr(e), 100 * rev_arr(e))
    ELSE bt_request.stop_value * rev_arr(e)

target_dist(e) ==
    IF bt_request.target_type = "fixed_rr" THEN bt_request.target_value * rev_arr(e)
    ELSE IF bt_request.target_type = "fixed_adr"
         THEN IF adr_arr(e) = None THEN None ELSE bt_request.target_value * adr_arr(e)
    ELSE None

\* round(x100 / 100 / unit, 2) in hundredths, the unit being entry_adr or entry_rev
in_report_unit(e, x100) ==
    LET unit == IF bt_request.report_unit = "adr" THEN adr_arr(e) ELSE rev_arr(e)
    IN  IF unit = None \/ x100 = None THEN NaN
        ELSE IF x100 >= 0 THEN <<RoundDiv(x100, unit)>> ELSE <<0 - RoundDiv(0 - x100, unit)>>

stopped(e, j) ==
    IF stop_dist(e) = None THEN FALSE
    ELSE IF entry_is_up(e) THEN 100 * close_arr(j) <= 100 * close_arr(e) - stop_dist(e)
    ELSE 100 * close_arr(j) >= 100 * close_arr(e) + stop_dist(e)

\* the TARGET part of one bar of the forward scan: NaN-free result or no exit
hit(e, j) ==
    IF target_dist(e) = None THEN FALSE
    ELSE IF entry_is_up(e) THEN 100 * close_arr(j) >= 100 * close_arr(e) + target_dist(e)
    ELSE 100 * close_arr(j) <= 100 * close_arr(e) - target_dist(e)

ma_exit(e, j) ==
    /\ is_up_arr(j) # entry_is_up(e)
    /\ ema_values(j) # None
    /\ IF entry_is_up(e) THEN close_arr(j) < ema_values(j) ELSE close_arr(j) > ema_values(j)

color_exit(e, j) == is_up_arr(j) # entry_is_up(e)

\* mutant of move: the price change, whatever the direction of the trade
move_price_change(e, j) == close_arr(j) - close_arr(e)

\* move towards the trade from the entry close to the close of bar j
move(e, j) == IF entry_is_up(e) THEN close_arr(j) - close_arr(e) ELSE close_arr(e) - close_arr(j)

\* mutant of fixed_target_result: the result is the move to the close of the exit bar
fixed_target_result_move(e, j) == in_report_unit(e, 100 * move(e, j))

\* result of a fixed_rr / fixed_adr target hit at bar j
fixed_target_result(e, j) == in_report_unit(e, target_dist(e))

\* mutant of forward_scan: the target is checked before the stop
RECURSIVE forward_scan_target_first(_, _)
forward_scan_target_first(e, j) ==
    IF j >= n_rows
    THEN [outcome |-> "open", result |-> in_report_unit(e, 100 * move(e, n_rows - 1)),
          bars_held |-> n_rows - 1 - e, exit_idx |-> n_rows - 1]
    ELSE IF bt_request.target_type \in {"fixed_rr", "fixed_adr"} /\ hit(e, j)
    THEN [outcome |-> "target", result |-> fixed_target_result(e, j),
          bars_held |-> j - e, exit_idx |-> j]
    ELSE IF bt_request.target_type = "ma_trail" /\ ma_exit(e, j)
    THEN [outcome |-> "target", result |-> in_report_unit(e, 100 * move(e, j)),
          bars_held |-> j - e, exit_idx |-> j]
    ELSE IF bt_request.target_type = "color_change" /\ color_exit(e, j)
    THEN [outcome |-> "target", result |-> in_report_unit(e, 100 * move(e, j)),
          bars_held |-> j - e, exit_idx |-> j]
    ELSE IF stopped(e, j)
    THEN [outcome |-> "stop",
          result |-> in_report_unit(e, IF stop_dist(e) = None THEN None ELSE 0 - stop_dist(e)),
          bars_held |-> j - e, exit_idx |-> j]
    ELSE forward_scan_target_first(e, j + 1)

\* mutant of forward_scan: an open trade keeps the initial result 0.0
RECURSIVE forward_scan_open_unset(_, _)
forward_scan_open_unset(e, j) ==
    IF j >= n_rows
    THEN [outcome |-> "open", result |-> <<0>>,
          bars_held |-> n_rows - 1 - e, exit_idx |-> n_rows - 1]
    ELSE IF stopped(e, j)
    THEN [outcome |-> "stop",
          result |-> in_report_unit(e, IF stop_dist(e) = None THEN None ELSE 0 - stop_dist(e)),
          bars_held |-> j - e, exit_idx |-> j]
    ELSE IF bt_request.target_type \in {"fixed_rr", "fixed_adr"} /\ hit(e, j)
    THEN [outcome |-> "target", result |-> fixed_target_result(e, j),
          bars_held |-> j - e, exit_idx |-> j]
    ELSE IF bt_request.target_type = "ma_trail" /\ ma_exit(e, j)
    THEN [outcome |-> "target", result |-> in_report_unit(e, 100 * move(e, j)),
          bars_held |-> j - e, exit_idx |-> j]
    ELSE IF bt_request.target_type = "color_change" /\ color_exit(e, j)
    THEN [outcome |-> "target", result |-> in_report_unit(e, 100 * move(e, j)),
          bars_held |-> j - e, exit_idx |-> j]
    ELSE forward_scan_open_unset(e, j + 1)

\* for j in range(i + 1, n), and the open outcome after it
RECURSIVE forward_scan(_, _)
forward_scan(e, j) ==
    IF j >= n_rows
    THEN [outcome |-> "open", result |-> in_report_unit(e, 100 * move(e, n_rows - 1)),
          bars_held |-> n_rows - 1 - e, exit_idx |-> n_rows - 1]
    ELSE IF stopped(e, j)
    THEN [outcome |-> "stop",
          result |-> in_report_unit(e, IF stop_dist(e) = None THEN None ELSE 0 - stop_dist(e)),
          bars_held |-> j - e, exit_idx |-> j]
    ELSE IF bt_request.target_type \in {"fixed_rr", "fixed_adr"} /\ hit(e, j)
    THEN [outcome |-> "target", result |-> fixed_target_result(e, j),
          bars_held |-> j - e, exit_idx |-> j]
    ELSE IF bt_request.target_type = "ma_trail" /\ ma_exit(e, j)
    THEN [outcome |-> "target", result |-> in_report_unit(e, 100 * move(e, j)),
          bars_held |-> j - e, exit_idx |-> j]
    ELSE IF bt_request.target_type = "color_change" /\ color_exit(e, j)
    THEN [outcome |-> "target", result |-> in_report_unit(e, 100 * move(e, j)),
          bars_held |-> j - e, exit_idx |-> j]
    ELSE forward_scan(e, j + 1)

\* the trade record of an entry at row e
trade(e) ==
    LET r == forward_scan(e, e + 1)
    IN  [idx |-> e, entry_price |-> round5(close_arr(e)),
         direction |-> IF entry_is_up(e) THEN "long" ELSE "short",
         outcome |-> r.outcome, result |-> r.result, bars_held |-> r.bars_held,
         exit_idx |-> r.exit_idx, exit_price |-> round5(close_arr(r.exit_idx))]

\* mutant of next_allowed_after: a new trade may start on the exit bar
next_allowed_after_on_exit_bar(exit_idx) == exit_idx

\* next_allowed_entry = exit_idx + 1
next_allowed_after(exit_idx) == exit_idx + 1

SignalNames == {"s1", "s2", "s3"}

BacktestInit ==
    /\ EngineIdle /\ SessionIdle /\ AdrIdle /\ SignalsIdle /\ StatsIdle /\ CrossingIdle
    /\ bt_request \in BacktestRequests
    /\ bt_df \in BtFrames
    /\ bt_pc = "request"
    /\ all_entries = <<>> /\ errors_result = {} /\ entry_pos = 1
    /\ next_allowed_entry = 0
    /\ trades_by_signal = [nm \in SignalNames |-> <<>>]
    /\ evaluated = <<>>
    /\ bt_response = NotCalled

\* steps 1 and 2: collect the pairs of all signals and sort them
CollectEntries ==
    /\ bt_pc = "request"
    /\ all_entries' = sort_entries(collect(1, <<>>), <<>>)
    /\ errors_result' = collect_errors
    /\ entry_pos' = 1
    /\ next_allowed_entry' = 0
    /\ bt_pc' = "scan"
    /\ UNCHANGED <<bt_request, bt_df, trades_by_signal, evaluated, bt_response>>
    /\ UNCHANGED <<session_vars, adr_vars, engine_all_vars, sig_vars, stats_vars, crossing_vars>>

InPass == bt_pc = "scan" /\ entry_pos <= Len(all_entries)

BtFrame ==
    /\ UNCHANGED <<bt_request, bt_df, bt_pc, all_entries, errors_result, bt_response>>
    /\ UNCHANGED <<session_vars, adr_vars, engine_all_vars, sig_vars, stats_vars, crossing_vars>>

\* if i >= n - 1: continue
SkipLastBar ==
    /\ InPass
    /\ all_entries[entry_pos][1] >= n_rows - 1
    /\ entry_pos' = entry_pos + 1
    /\ evaluated' = Append(evaluated, all_entries[entry_pos])
    /\ UNCHANGED <<next_allowed_entry, trades_by_signal>>
    /\ BtFrame

\* if not request.allow_overlap and i < next_allowed_entry: continue
SkipSerialized ==
    /\ InPass
    /\ all_entries[entry_pos][1] < n_rows - 1
    /\ ~bt_request.allow_overlap /\ all_entries[entry_pos][1] < next_allowed_entry
    /\ entry_pos' = entry_pos + 1
    /\ evaluated' = Append(evaluated, all_entries[entry_pos])
    /\ UNCHANGED <<next_allowed_entry, trades_by_signal>>
    /\ BtFrame

\* the entry is taken: forward scan, trade record, next_allowed_entry
EnterTrade ==
    /\ InPass
    /\ all_entries[entry_pos][1] < n_rows - 1
    /\ ~(~bt_request.allow_overlap /\ all_entries[entry_pos][1] < next_allowed_entry)
    /\ LET e == all_entries[entry_pos][1]
           sig_name == all_entries[entry_pos][2]
           t == trade(e)
       IN  /\ trades_by_signal' = [trades_by_signal EXCEPT ![sig_name] = Append(@, t)]
           /\ next_allowed_entry' = IF ~bt_request.allow_overlap THEN next_allowed_after(t.exit_idx)
                                    ELSE next_allowed_entry
    /\ entry_pos' = entry_pos + 1
    /\ evaluated' = Append(evaluated, all_entries[entry_pos])
    /\ BtFrame

\* step 4: the signals that get an entry in signals_result
reported_signals ==
    { bt_request.signals[k].name : k \in { m \in 1..Len(bt_request.signals) :
          /\ bt_request.signals[m].name \notin errors_result
          /\ bt_request.signals[m].expression # "" } }

\* the counts of the summary; NaN results are neither wins nor losses
summary(trades) ==
    LET closed == SelectSeq(trades, LAMBDA t : t.outcome # "open")
    IN  [count |-> Len(trades),
         wins |-> Len(SelectSeq(closed, LAMBDA t : t.result # NaN /\ t.result[1] > 0)),
         losses |-> Len(SelectSeq(closed, LAMBDA t : t.result # NaN /\ t.result[1] <= 0)),
         open |-> Len(SelectSeq(trades, LAMBDA t : t.outcome = "open"))]

\* return {"signals": signals_result, "errors": errors_result, ...}
response ==
    [status |-> 200,
     signals |-> [nm \in reported_signals |->
                     [trades |-> trades_by_signal[nm], summary |-> summary(trades_by_signal[nm])]],
     errors |-> errors_result]

\* the single pass is over: summary per signal and the response
EndOfPass ==
    /\ bt_pc = "scan" /\ entry_pos > Len(all_entries)
    /\ bt_pc' = "done"
    /\ bt_response' = <<response>>
    /\ UNCHANGED <<bt_request, bt_df, all_entries, errors_result, entry_pos,
                   next_allowed_entry, trades_by_signal, evaluated>>
    /\ UNCHANGED <<session_vars, adr_vars, engine_all_vars, sig_vars, stats_vars, crossing_vars>>

BacktestNext ==
    \/ CollectEntries
    \/ SkipLastBar
    \/ SkipSerialized
    \/ EnterTrade
    \/ EndOfPass

BacktestSpec == BacktestInit /\ [][BacktestNext]_vars

(***************************************************************************)
(* Properties of backtest_signals                                          *)
(***************************************************************************)
\* position of a signal in the request, and the rows its expression selects
SignalPos(nm) == CHOOSE k \in 1..Len(bt_request.signals) : bt_request.signals[k].name = nm

Matches(nm, j) ==
    LET ex == bt_request.signals[SignalPos(nm)].expression
    IN  \/ ex = "all"
        \/ ex = "up" /\ bt_df[j + 1].close > bt_df[j + 1].open
        \/ ex = "down" /\ ~(bt_df[j + 1].close > bt_df[j + 1].open)

RequestNames == { bt_request.signals[k].name : k \in 1..Len(bt_request.signals) }
BtBars == 0..(Len(bt_df) - 1)

\* all trades of the ledger, with the name of their signal
Trades ==
    UNION { { <<nm, trades_by_signal[nm][k]>> : k \in 1..Len(trades_by_signal[nm]) } : nm \in SignalNames }

Running == bt_pc \in {"scan", "done"}

\* C16: the pairs are evaluated in ascending entry index, pairs with the same
\* index in the order of the signals in the request, every collected pair
\* once; without overlap, a bar matched by several signals gives its trade to
\* the first of them in the request.
C16_EvaluationOrder ==
    Running =>
        /\ \A a, b \in 1..Len(evaluated) :
              a < b => \/ evaluated[a][1] < evaluated[b][1]
                       \/ /\ evaluated[a][1] = evaluated[b][1]
                          /\ SignalPos(evaluated[a][2]) < SignalPos(evaluated[b][2])
        /\ bt_pc = "done" =>
              { evaluated[a] : a \in 1..Len(evaluated) }
                  = { <<j, nm>> \in BtBars \X RequestNames : Matches(nm, j) }
        /\ ~bt_request.allow_overlap =>
              \A t \in Trades :
                  \A nm \in RequestNames :
                      Matches(nm, t[2].idx) => SignalPos(t[1]) <= SignalPos(nm)

\* a serialized run in which a bar matched by two signals was traded, and the
\* second signal got a trade of its own on another bar
C16_Witness ==
    /\ bt_pc = "done" /\ ~bt_request.allow_overlap
    /\ \E t \in Trades : t[1] = "s1" /\ Matches("s2", t[2].idx)
    /\ \E t \in Trades : t[1] = "s2"

\* the evaluated pairs that lie before the last row
Enterable == { a \in 1..Len(evaluated) : evaluated[a][1] < Len(bt_df) - 1 }

TradeOf(a) == { t \in Trades : t[1] = evaluated[a][2] /\ t[2].idx = evaluated[a][1] }

RECURSIVE MaxExit(_)
MaxExit(T) ==
    IF T = {} THEN -1
    ELSE LET t == CHOOSE x \in T : TRUE IN Max(t[2].exit_idx, MaxExit(T \ {t}))

\* C17: without overlap, next_allowed_entry is one past the exit of the last
\* accepted trade, an entry is skipped exactly when it lies before it, so the
\* ranges [idx, exit_idx] of any two trades of the ledger are disjoint, no bar
\* has two trades and no trade follows an open one; with overlap every entry
\* before the last row has its trade.
C17_SerializedMode ==
    Running =>
        /\ ~bt_request.allow_overlap =>
              /\ next_allowed_entry = MaxExit(Trades) + 1
              /\ \A t, u \in Trades :
                    t # u => (t[2].exit_idx < u[2].idx \/ u[2].exit_idx < t[2].idx)
              /\ \A t, u \in Trades : t[2].outcome = "open" => u[2].idx <= t[2].idx
              /\ \A a \in Enterable :
                    \/ Cardinality(TradeOf(a)) = 1
                    \/ /\ TradeOf(a) = {}
                       /\ \E t \in Trades :
                             t[2].idx <= evaluated[a][1] /\ evaluated[a][1] <= t[2].exit_idx
        /\ bt_request.allow_overlap =>
              /\ \A a \in Enterable : Cardinality(TradeOf(a)) = 1
              /\ Cardinality(Trades) = Cardinality(Enterable)
              /\ next_allowed_entry = 0

\* a serialized run with two trades, the second starting right after the exit
\* of the first and staying open, and an entry skipped on the exit bar of the
\* first and on the entry bar of the second
C17_Witness ==
    /\ bt_pc = "done" /\ ~bt_request.allow_overlap
    /\ \E t, u \in Trades :
          /\ u[2].idx = t[2].exit_idx + 1 /\ u[2].outcome = "open"
          /\ \E a, b \in Enterable :
                /\ TradeOf(a) = {} /\ evaluated[a][1] = t[2].exit_idx
                /\ TradeOf(b) = {} /\ evaluated[b][1] = u[2].idx

\* a run with overlap in which trades overlap
C17_WitnessOverlap ==
    /\ bt_pc = "done" /\ bt_request.allow_overlap
    /\ \E t, u \in Trades : t[2].idx < u[2].idx /\ u[2].idx < t[2].exit_idx

\* the entry row of a trade and the rows of the data
EntryClose(e) == bt_df[e + 1].close
IsLong(e) == bt_df[e + 1].close > bt_df[e + 1].open

\* the stop distance times 100: stop_value reversal sizes, or stop_value ADR but
\* at least one reversal size; None when the ADR of the entry row is missing
StopDist(e) ==
    IF bt_request.stop_type = "rr" THEN bt_request.stop_value * bt_df[e + 1].reversal_size
    ELSE IF bt_df[e + 1].currentADR = None THEN None
    ELSE Max(bt_request.stop_value * bt_df[e + 1].currentADR, 100 * bt_df[e + 1].reversal_size)

\* the close of row j is at or beyond the stop price of an entry at row e
StopHit(e, j) ==
    /\ StopDist(e) # None
    /\ IF IsLong(e) THEN 100 * bt_df[j + 1].close <= 100 * EntryClose(e) - StopDist(e)
       ELSE 100 * bt_df[j + 1].close >= 100 * EntryClose(e) + StopDist(e)

\* the target distance times 100 of the fixed targets
TargetDist(e) ==
    IF bt_request.target_type = "fixed_rr" THEN bt_request.target_value * bt_df[e + 1].reversal_size
    ELSE IF bt_df[e + 1].currentADR = None THEN None
    ELSE bt_request.target_value * bt_df[e + 1].currentADR

OppositeColour(e, j) == (bt_df[j + 1].close > bt_df[j + 1].open) # IsLong(e)

\* row j satisfies the target rule of the request for an entry at row e
TargetRule(e, j) ==
    IF bt_request.target_type \in {"fixed_rr", "fixed_adr"}
    THEN /\ TargetDist(e) # None
         /\ IF IsLong(e) THEN 100 * bt_df[j + 1].close >= 100 * EntryClose(e) + TargetDist(e)
            ELSE 100 * bt_df[j + 1].close <= 100 * EntryClose(e) - TargetDist(e)
    ELSE IF bt_request.target_type = "color_change" THEN OppositeColour(e, j)
    ELSE /\ OppositeColour(e, j) /\ bt_df[j + 1].ema # None
         /\ IF IsLong(e) THEN bt_df[j + 1].close < bt_df[j + 1].ema
            ELSE bt_df[j + 1].close > bt_df[j + 1].ema

After(e) == (e + 1)..(Len(bt_df) - 1)

\* C18: the stop is checked before the target on every bar: a trade whose first
\* stop bar comes with no target bar before it ends there with outcome stop and
\* result -stop_dist in the report unit, also when that bar satisfies the
\* target rule; a stop outcome is at the first stop bar; a target outcome is at
\* a bar that is not a stop bar and has no stop bar before it.
C18_StopBeforeTarget ==
    Running =>
        \A t \in Trades :
            LET e == t[2].idx
                x == t[2].exit_idx
            IN  /\ \A j \in After(e) :
                      (StopHit(e, j) /\ \A m \in (e + 1)..(j - 1) : ~StopHit(e, m) /\ ~TargetRule(e, m))
                          => /\ t[2].outcome = "stop" /\ x = j
                             /\ t[2].result = in_report_unit(e, 0 - StopDist(e))
                /\ t[2].outcome = "stop" =>
                      StopHit(e, x) /\ \A m \in (e + 1)..(x - 1) : ~StopHit(e, m)
                /\ t[2].outcome = "target" =>
                      TargetRule(e, x) /\ \A m \in (e + 1)..x : ~StopHit(e, m)

\* a long trade stopped on a bar that also satisfies the target rule, the result
\* of -1 reversal size reported as -0.25 ADR
C18_Witness ==
    /\ bt_pc = "done" /\ bt_request.stop_type = "rr" /\ bt_request.report_unit = "adr"
    /\ \E t \in Trades :
          /\ t[2].outcome = "stop" /\ IsLong(t[2].idx)
          /\ TargetRule(t[2].idx, t[2].exit_idx)
          /\ t[2].result = <<-25>>

\* the move in the direction of the trade from the entry close to the close of row j
SignedMove(e, j) ==
    IF IsLong(e) THEN bt_df[j + 1].close - EntryClose(e) ELSE EntryClose(e) - bt_df[j + 1].close

\* the trade of the scenario: entry on an UP bar closing 1.2000, the next bar
\* DOWN closing 1.1985, stop of one reversal size (0.0020) at 1.1980, RR report
Scenario19(t) ==
    /\ bt_request.target_type = "color_change"
    /\ bt_request.stop_type = "rr" /\ bt_request.report_unit = "rr"
    /\ IsLong(t[2].idx) /\ EntryClose(t[2].idx) = 1200000
    /\ bt_df[t[2].idx + 2].close = 1198500 /\ bt_df[t[2].idx + 2].open = 1200000

\* C19: with target_type color_change a trade exits at the first bar after the
\* entry whose colour is opposite to the entry bar, unless a stop fired at or
\* before it, with outcome target and the move from the entry close to that
\* close in the report unit, also when it is a loss; in the scenario the
\* outcome is target and the result is (1.1985 - 1.2000) / 0.0020 = -0.75.
C19_ColorChangeExit ==
    (Running /\ bt_request.target_type = "color_change") =>
        \A t \in Trades :
            LET e == t[2].idx
            IN  /\ \A j \in After(e) :
                      (/\ OppositeColour(e, j)
                       /\ \A m \in (e + 1)..(j - 1) : ~OppositeColour(e, m)
                       /\ \A m \in (e + 1)..j : ~StopHit(e, m))
                          => /\ t[2].outcome = "target" /\ t[2].exit_idx = j
                             /\ t[2].result = in_report_unit(e, 100 * SignedMove(e, j))
                /\ t[2].outcome = "target" =>
                      /\ OppositeColour(e, t[2].exit_idx)
                      /\ \A m \in (e + 1)..(t[2].exit_idx - 1) : ~OppositeColour(e, m)
                      /\ \A m \in (e + 1)..t[2].exit_idx : ~StopHit(e, m)
                /\ Scenario19(t) =>
                      /\ t[2].outcome = "target" /\ t[2].exit_idx = e + 1
                      /\ t[2].result = <<-75>>

\* the scenario has been traded
C19_Witness ==
    /\ bt_pc = "done"
    /\ \E t \in Trades : Scenario19(t) /\ t[2].outcome = "target" /\ t[2].result = <<-75>>

FixedTarget == bt_request.target_type \in {"fixed_rr", "fixed_adr"}

\* the trade exits by its fixed target exactly at the first row whose close
\* reaches entry_close +/- target_value * (reversal_size | currentADR), unless
\* a stop fired at or before it
FixedTargetExit(t) ==
    LET e == t[2].idx
    IN  /\ \A j \in After(e) :
              (/\ TargetRule(e, j)
               /\ \A m \in (e + 1)..(j - 1) : ~TargetRule(e, m)
               /\ \A m \in (e + 1)..j : ~StopHit(e, m))
                  => t[2].outcome = "target" /\ t[2].exit_idx = j
        /\ t[2].outcome = "target" => TargetRule(e, t[2].exit_idx)

\* C20 as stated: on a fixed_rr / fixed_adr target hit the outcome is target
\* and the result is the move from the entry close to the close of the exit
\* bar, in the report unit.
C20_TargetResultIsMove ==
    (Running /\ FixedTarget) =>
        \A t \in Trades :
            /\ FixedTargetExit(t)
            /\ t[2].outcome = "target" =>
                  t[2].result = in_report_unit(t[2].idx, 100 * SignedMove(t[2].idx, t[2].exit_idx))

\* C20 amended: on a fixed_rr / fixed_adr target hit the outcome is target and
\* the result is the target distance target_value * (reversal_size | currentADR)
\* in the report unit, however far the close of the exit bar went.
C20_TargetResultIsTargetDist ==
    (Running /\ FixedTarget) =>
        \A t \in Trades :
            /\ FixedTargetExit(t)
            /\ t[2].outcome = "target" =>
                  t[2].result = in_report_unit(t[2].idx, TargetDist(t[2].idx))

\* a long trade from 1.2000 with a target of one reversal size (1.2020) that
\* exits on a close of 1.2045: the result is 1.00, the move is 2.25
C20_Witness ==
    /\ bt_pc = "done" /\ bt_request.target_type = "fixed_rr" /\ bt_request.report_unit = "rr"
    /\ \E t \in Trades :
          /\ t[2].outcome = "target" /\ EntryClose(t[2].idx) = 1200000
          /\ bt_df[t[2].exit_idx + 1].close = 1204500
          /\ t[2].result = <<100>>
          /\ in_report_unit(t[2].idx, 100 * SignedMove(t[2].idx, t[2].exit_idx)) = <<225>>

\* C21: an entry on or after the last row gives no trade; an accepted entry
\* gives exactly one trade, with exit_idx > idx and bars_held = exit_idx - idx
\* >= 1; a trade for which no later row hits the stop or satisfies the target
\* rule is open, exits on the last row and has the move from the entry close to
\* the last close as its result, and only such a trade is open.  The ledger
\* only grows, so it is looked at when the pass is over.
C21_TradeShape ==
    bt_pc = "done" =>
        /\ \A a \in 1..Len(evaluated) :
              /\ evaluated[a][1] >= Len(bt_df) - 1 => TradeOf(a) = {}
              /\ Cardinality(TradeOf(a)) <= 1
        /\ \A t \in Trades :
              LET e == t[2].idx
                  quiet == \A j \in After(e) : ~StopHit(e, j) /\ ~TargetRule(e, j)
              IN  /\ \E a \in Enterable : t \in TradeOf(a)
                  /\ t[2].exit_idx > e
                  /\ t[2].bars_held = t[2].exit_idx - e /\ t[2].bars_held >= 1
                  /\ (t[2].outcome = "open") <=> quiet
                  /\ quiet => /\ t[2].exit_idx = Len(bt_df) - 1
                              /\ t[2].result = in_report_unit(e, 100 * SignedMove(e, Len(bt_df) - 1))

\* an open trade held for two bars or more with a result that is not zero, and
\* an entry on the last row that was passed over
C21_Witness ==
    /\ bt_pc = "done"
    /\ \E t \in Trades :
          /\ t[2].outcome = "open" /\ t[2].bars_held >= 2
          /\ t[2].result # NaN /\ t[2].result # <<0>>
    /\ \E a \in 1..Len(evaluated) : evaluated[a][1] = Len(bt_df) - 1

\* C22: partial outputs are never emitted: a request in which the expression
\* of one signal fails to evaluate returns an error and no ledger for the
\* other signals; no response has results for some signals and an error for
\* another.
C22_NoPartialOutput ==
    bt_response # NotCalled =>
        /\ errors_result # {} =>
              (bt_response[1].status # 200 /\ DOMAIN bt_response[1].signals = {})
        /\ ~(DOMAIN bt_response[1].signals # {} /\ bt_response[1].errors # {})

(***************************************************************************)
(* save_signal / delete_signal: requests served by parallel threads        *)
(***************************************************************************)
Threads == {1, 2}

SavedSignal(nm, ex) == [name |-> nm, expression |-> ex]

\* what signals.json holds before the requests
StoredLists ==
    { <<>>, <<SavedSignal("a", "x")>>, <<SavedSignal("a", "x"), SavedSignal("b", "y")>> }

SignalRequests ==
    { [op |-> "save", name |-> nm, expression |-> ex] : nm \in {"a", "b", "c"}, ex \in {"x", "y"} }
    \cup { [op |-> "delete", name |-> nm, expression |-> ""] : nm \in {"a", "b"} }

\* save_signal: overwrite the first entry of that name, or append
overwrite_or_append(signals, nm, ex) ==
    IF \E k \in 1..Len(signals) : signals[k].name = nm
    THEN LET first == CHOOSE k \in 1..Len(signals) :
                          signals[k].name = nm /\ \A m \in 1..(k - 1) : signals[m].name # nm
         IN  [signals EXCEPT ![first].expression = ex]
    ELSE Append(signals, SavedSignal(nm, ex))

\* delete_signal: [s for s in signals if s["name"] != name]
without_name(signals, nm) == SelectSeq(signals, LAMBDA x : x.name # nm)

SignalsInit ==
    /\ EngineIdle /\ SessionIdle /\ AdrIdle /\ BacktestIdle /\ StatsIdle /\ CrossingIdle
    /\ signals_json \in StoredLists
    /\ json_at_start = signals_json
    /\ sig_request \in [Threads -> SignalRequests]
    /\ sig_pc = [th \in Threads |-> "start"]
    /\ sig_local = [th \in Threads |-> <<>>]
    /\ sig_response = [th \in Threads |-> NotCalled]

SigFrame == UNCHANGED <<json_at_start, sig_request, session_vars, adr_vars, bt_vars, engine_all_vars, stats_vars, crossing_vars>>

\* signals = _read_signals(json_path)
read_signals(th) ==
    /\ sig_pc[th] = "start"
    /\ sig_local' = [sig_local EXCEPT ![th] = signals_json]
    /\ sig_pc' = [sig_pc EXCEPT ![th] = "read"]
    /\ UNCHANGED <<signals_json, sig_response>>
    /\ SigFrame

\* the rest of save_signal: change the local list, write it, return it
save_signal(th) ==
    /\ sig_pc[th] = "read" /\ sig_request[th].op = "save"
    /\ LET signals == overwrite_or_append(sig_local[th], sig_request[th].name,
                                          sig_request[th].expression)
       IN  /\ sig_local' = [sig_local EXCEPT ![th] = signals]
           /\ signals_json' = signals
           /\ sig_response' = [sig_response EXCEPT ![th] = <<signals>>]
    /\ sig_pc' = [sig_pc EXCEPT ![th] = "done"]
    /\ SigFrame

\* the rest of delete_signal
delete_signal(th) ==
    /\ sig_pc[th] = "read" /\ sig_request[th].op = "delete"
    /\ LET signals == without_name(sig_local[th], sig_request[th].name)
       IN  /\ sig_local' = [sig_local EXCEPT ![th] = signals]
           /\ signals_json' = signals
           /\ sig_response' = [sig_response EXCEPT ![th] = <<signals>>]
    /\ sig_pc' = [sig_pc EXCEPT ![th] = "done"]
    /\ SigFrame

SignalsNext ==
    \/ \E th \in Threads : read_signals(th)
    \/ \E th \in Threads : save_signal(th)
    \/ \E th \in Threads : delete_signal(th)

SignalsSpec == SignalsInit /\ [][SignalsNext]_vars

(***************************************************************************)
(* Properties of parallel requests                                         *)
(***************************************************************************)
\* the list a request leaves in the file, and returns, when it runs alone
Alone(req, stored) ==
    IF req.op = "save"
    THEN IF \E k \in 1..Len(stored) : stored[k].name = req.name
         THEN [k \in 1..Len(stored) |->
                  IF stored[k].name = req.name /\ \A m \in 1..(k - 1) : stored[m].name # req.name
                  THEN SavedSignal(req.name, req.expression) ELSE stored[k]]
         ELSE stored \o <<SavedSignal(req.name, req.expression)>>
    ELSE SelectSeq(stored, LAMBDA x : x.name # req.name)

BothDone == \A th \in Threads : sig_pc[th] = "done"

StoredNames == { signals_json[k].name : k \in 1..Len(signals_json) }

\* C23: whatever the interleaving of two requests, the file and the two
\* responses are those of one of the two sequential executions; two save
\* requests with different names are both stored when both have completed.
C23_Serializable ==
    BothDone =>
        /\ \E a, b \in Threads :
              /\ a # b
              /\ sig_response[a] = <<Alone(sig_request[a], json_at_start)>>
              /\ sig_response[b] = <<Alone(sig_request[b], Alone(sig_request[a], json_at_start))>>
              /\ signals_json = Alone(sig_request[b], Alone(sig_request[a], json_at_start))
        /\ (/\ sig_request[1].op = "save" /\ sig_request[2].op = "save"
            /\ sig_request[1].name # sig_request[2].name)
              => {sig_request[1].name, sig_request[2].name} \subseteq StoredNames

(***************************************************************************)
(* compute_stats_columns: pullback counters, MA-trail columns, trimming    *)
(***************************************************************************)
MaxStatRows == 5

\* prices of this table are whole points; an EMA is held as value * EmaScale,
\* which keeps every division of calculate_ema exact
EmaScale == 16 * 243 * 125

StatBrick == 2                         \* brick_size of the table, in points
StatWick == 3                          \* a wick longer than one brick
StatStart == 20                        \* open of the first brick
Moves == { [up |-> u, wick |-> w] : u \in BOOLEAN, w \in {0, StatWick} }
MoveLists == UNION { [1..n -> Moves] : n \in 1..MaxStatRows }

\* close of brick k (1-based) of a renko table drawn by the moves: a brick in
\* the direction of the one before moves the close by one brick, a reversal
\* by the reversal size
RECURSIVE drawn_close(_, _, _)
drawn_close(mv, rs, k) ==
    LET sign == IF mv[k].up THEN 1 ELSE -1
    IN  IF k = 1 THEN StatStart + sign * StatBrick
        ELSE drawn_close(mv, rs, k - 1)
                 + sign * (IF mv[k].up = mv[k - 1].up THEN StatBrick ELSE rs)

\* the rows of the table: currentADR is missing before row adr_from
drawn_table(mv, rs, adr_from) ==
    [k \in 1..Len(mv) |->
        LET c == drawn_close(mv, rs, k)
            o == IF mv[k].up THEN c - StatBrick ELSE c + StatBrick
        IN  [open |-> o, close |-> c,
             high |-> IF mv[k].up THEN c ELSE o + mv[k].wick,
             low |-> IF mv[k].up THEN o - mv[k].wick ELSE c,
             brick_size |-> StatBrick, reversal_size |-> rs,
             currentADR |-> IF k - 1 >= adr_from THEN 8 ELSE None]]

StatTables ==
    { drawn_table(mv, rs, adr_from) :
          mv \in MoveLists, rs \in {StatBrick, 2 * StatBrick}, adr_from \in {0, MaxStatRows + 1} }

MaPeriods == { <<1, 2, 3>>, <<2, 3, 4>> }

st_n == Len(st_df)
open_arr(k) == st_df[k + 1].open
high_arr(k) == st_df[k + 1].high
low_arr(k) == st_df[k + 1].low
st_close_arr(k) == st_df[k + 1].close
rev_size_arr(k) == st_df[k + 1].reversal_size
brick_size_arr(k) == st_df[k + 1].brick_size
is_up_arr_t(k) == st_df[k + 1].close > st_df[k + 1].open
is_dn_arr_t(k) == st_df[k + 1].close < st_df[k + 1].open

RECURSIVE sum_close(_, _)
sum_close(from, to) == IF from > to THEN 0 ELSE st_close_arr(from) + sum_close(from + 1, to)

\* calculate_ema(df['close'], period)[k]: NaN before row period - 1, the mean of
\* the first period closes on that row, then the recurrence
RECURSIVE calculate_ema(_, _)
calculate_ema(period, k) ==
    IF k < period - 1 THEN NaN
    ELSE IF k = period - 1 THEN <<(sum_close(0, period - 1) * EmaScale) \div period>>
    ELSE LET before == calculate_ema(period, k - 1)[1]
         IN  <<before + ((st_close_arr(k) * EmaScale - before) * 2) \div (period + 1)>>

\* a > b on floats: False as soon as one side is NaN
float_gt(a, b) == a # NaN /\ b # NaN /\ a[1] > b[1]

get_state(fast, med, slow) ==
    IF float_gt(fast, med) /\ float_gt(med, slow) THEN 3
    ELSE IF float_gt(fast, slow) /\ float_gt(slow, med) THEN 2
    ELSE IF float_gt(slow, fast) /\ float_gt(fast, med) THEN 1
    ELSE IF float_gt(med, fast) /\ float_gt(fast, slow) THEN -1
    ELSE IF float_gt(med, slow) /\ float_gt(slow, fast) THEN -2
    ELSE IF float_gt(slow, med) /\ float_gt(med, fast) THEN -3
    ELSE 0

state_arr(k) ==
    get_state(calculate_ema(st_ma[1], k), calculate_ema(st_ma[2], k), calculate_ema(st_ma[3], k))

use_3bar(k) == rev_size_arr(k) > brick_size_arr(k)

StatsInit ==
    /\ EngineIdle /\ SessionIdle /\ AdrIdle /\ BacktestIdle /\ SignalsIdle /\ CrossingIdle
    /\ st_df \in StatTables
    /\ st_ma \in MaPeriods
    /\ st_smae = <<2, 3>>
    /\ st_i = 0
    /\ st_pc = "counters"
    /\ internal_type1 = 0
    /\ internal_type2 = 0
    /\ prev_state = <<>>
    /\ type1_count = <<>>
    /\ type2_count = <<>>
    /\ st_result = NotCalled

StatsFrame == UNCHANGED <<st_df, st_ma, st_smae, session_vars, adr_vars, bt_vars, sig_vars, engine_all_vars, crossing_vars>>

\* one round of the loop over the bars that fills Type1 and Type2
PullbackCounters ==
    /\ st_pc = "counters"
    /\ LET state == state_arr(st_i)
           reset == prev_state # <<state>>
           t1 == IF reset THEN 0 ELSE internal_type1
           t2 == IF reset THEN 0 ELSE internal_type2
           is_up == is_up_arr_t(st_i)
           is_dn == is_dn_arr_t(st_i)
           step1 == IF st_i > 1 /\ state = 3 /\ is_up
                        /\ is_up_arr_t(st_i - 1) /\ is_dn_arr_t(st_i - 2) THEN 1
                    ELSE IF st_i > 1 /\ state = -3 /\ is_dn
                        /\ is_dn_arr_t(st_i - 1) /\ is_up_arr_t(st_i - 2) THEN -1
                    ELSE 0
           step2 == IF use_3bar(st_i) /\ st_i > 0 /\ state = 3 /\ is_up
                        /\ open_arr(st_i) - low_arr(st_i) > brick_size_arr(st_i)
                        /\ is_up_arr_t(st_i - 1) THEN 1
                    ELSE IF use_3bar(st_i) /\ st_i > 0 /\ state = -3 /\ is_dn
                        /\ high_arr(st_i) - open_arr(st_i) > brick_size_arr(st_i)
                        /\ ~is_up_arr_t(st_i - 1) THEN -1
                    ELSE 0
       IN  /\ internal_type1' = t1 + step1
           /\ internal_type2' = t2 + step2
           /\ type1_count' = Append(type1_count, IF step1 # 0 THEN t1 + step1 ELSE 0)
           /\ type2_count' = Append(type2_count, IF step2 # 0 THEN t2 + step2 ELSE 0)
           /\ prev_state' = <<state>>
    /\ st_i' = st_i + 1
    /\ st_pc' = IF st_i + 1 < st_n THEN "counters" ELSE "forward"
    /\ UNCHANGED st_result
    /\ StatsFrame

\* mutant of mfe_ma_price: the move is not floored at the reversal size
mfe_ma_price_unfloored(period, row) ==
    LET beyond(j) == IF is_up_arr_t(row)
                     THEN float_gt(calculate_ema(period, j), <<st_close_arr(j) * EmaScale>>)
                     ELSE float_gt(<<st_close_arr(j) * EmaScale>>, calculate_ema(period, j))
        found == { j \in (row + 1)..(st_n - 1) : is_up_arr_t(j) # is_up_arr_t(row) /\ beyond(j) }
    IN  IF found = {} THEN NaN
        ELSE LET j == set_min(found)
             IN  <<IF is_up_arr_t(row) THEN st_close_arr(j) - st_close_arr(row)
                   ELSE st_close_arr(row) - st_close_arr(j)>>

\* REAL_MA<idx>_Price of a row for the MA of that period: the scan stops at the
\* first later bar of the other colour that closes beyond its EMA
mfe_ma_price(period, row) ==
    LET beyond(j) == IF is_up_arr_t(row)
                     THEN float_gt(calculate_ema(period, j), <<st_close_arr(j) * EmaScale>>)
                     ELSE float_gt(<<st_close_arr(j) * EmaScale>>, calculate_ema(period, j))
        found == { j \in (row + 1)..(st_n - 1) : is_up_arr_t(j) # is_up_arr_t(row) /\ beyond(j) }
    IN  IF found = {} THEN NaN
        ELSE LET j == set_min(found)
             IN  <<Max(IF is_up_arr_t(row) THEN st_close_arr(j) - st_close_arr(row)
                       ELSE st_close_arr(row) - st_close_arr(j),
                       -rev_size_arr(row))>>

\* currentADR, the EMA distances and the two SMAE centers are all there
left_valid(k) ==
    /\ st_df[k + 1].currentADR # None
    /\ \A m \in 1..3 : calculate_ema(st_ma[m], k) # NaN
    /\ \A m \in 1..2 : k >= st_smae[m] - 1

\* every REAL_MA<idx>_Price is there
right_valid(k) == \A m \in 1..3 : mfe_ma_price(st_ma[m], k) # NaN

\* left_valid.idxmax(): the first True, and label 0 when there is none
left_cut ==
    IF \E k \in 0..(st_n - 1) : left_valid(k)
    THEN set_min({ k \in 0..(st_n - 1) : left_valid(k) })
    ELSE 0

\* right_valid[::-1].idxmax(): the last True, and the last label when there is none
right_cut ==
    IF \E k \in 0..(st_n - 1) : right_valid(k)
    THEN set_max({ k \in 0..(st_n - 1) : right_valid(k) })
    ELSE st_n - 1

\* the REAL_MA columns, the two cuts and df.loc[left_cut:right_cut]
TrimAndReturn ==
    /\ st_pc = "forward"
    /\ st_result' = <<[left_cut |-> left_cut, right_cut |-> right_cut,
                       rows |-> { k \in 0..(st_n - 1) : left_cut <= k /\ k <= right_cut },
                       REAL_MA_Price |-> [m \in 1..3 |->
                                             [k \in 1..st_n |-> mfe_ma_price(st_ma[m], k - 1)]]]>>
    /\ st_pc' = "done"
    /\ UNCHANGED <<st_i, internal_type1, internal_type2, prev_state, type1_count, type2_count>>
    /\ StatsFrame

StatsNext == PullbackCounters \/ TrimAndReturn

StatsSpec == StatsInit /\ [][StatsNext]_vars

(***************************************************************************)
(* Properties of the stats columns                                         *)
(***************************************************************************)
StatRowsOf == 0..(st_n - 1)
CountersFilled == st_pc \in {"forward", "done"}
UpBar(k) == st_df[k + 1].close > st_df[k + 1].open
DownBar(k) == st_df[k + 1].close < st_df[k + 1].open
Ema(m, k) == calculate_ema(st_ma[m], k)
TouchFromAbove(k) == Ema(1, k) # NaN /\ st_df[k + 1].low * EmaScale <= Ema(1, k)[1]
TouchFromBelow(k) == Ema(1, k) # NaN /\ st_df[k + 1].high * EmaScale >= Ema(1, k)[1]
ThreeBar(k) == st_df[k + 1].reversal_size > st_df[k + 1].brick_size

\* the first bar of the run of bars of one State that holds bar k
RunStart(k) ==
    CHOOSE a \in 0..k :
        /\ \A b \in a..k : state_arr(b) = state_arr(k)
        /\ a = 0 \/ state_arr(a - 1) # state_arr(k)

\* how many bars of the run of k, up to k, carry a value in that column
FiredInRun(column, k) == Cardinality({ b \in RunStart(k)..k : column[b + 1] # 0 })

Type1Up(k) ==
    /\ state_arr(k) = 3
    /\ IF ThreeBar(k)
       THEN /\ k >= 2 /\ DownBar(k - 2) /\ UpBar(k - 1) /\ UpBar(k)
            /\ \E b \in (k - 2)..k : TouchFromAbove(b)
       ELSE /\ k >= 1 /\ DownBar(k - 1) /\ UpBar(k)
            /\ \E b \in (k - 1)..k : TouchFromAbove(b)

Type1Down(k) ==
    /\ state_arr(k) = -3
    /\ IF ThreeBar(k)
       THEN /\ k >= 2 /\ UpBar(k - 2) /\ DownBar(k - 1) /\ DownBar(k)
            /\ \E b \in (k - 2)..k : TouchFromBelow(b)
       ELSE /\ k >= 1 /\ UpBar(k - 1) /\ DownBar(k)
            /\ \E b \in (k - 1)..k : TouchFromBelow(b)

\* C24: Type1 is non-zero only in State +3 or -3; it is positive exactly on
\* the bars that end the DOWN,UP,UP pattern with an MA touch (DOWN,UP when the
\* reversal size equals the brick size), negative exactly on the mirror
\* bars, and a firing bar carries the running counter of its State run.
C24_Type1 ==
    CountersFilled =>
        \A k \in StatRowsOf :
            /\ type1_count[k + 1] # 0 => state_arr(k) \in {3, -3}
            /\ type1_count[k + 1] > 0 <=> Type1Up(k)
            /\ type1_count[k + 1] < 0 <=> Type1Down(k)
            /\ type1_count[k + 1] > 0 => type1_count[k + 1] = FiredInRun(type1_count, k)
            /\ type1_count[k + 1] < 0 => type1_count[k + 1] = -FiredInRun(type1_count, k)

Type2Up(k) ==
    /\ state_arr(k) = 3 /\ UpBar(k)
    /\ st_df[k + 1].open - st_df[k + 1].low > st_df[k + 1].brick_size
    /\ ThreeBar(k) => (k >= 1 /\ UpBar(k - 1))

Type2Down(k) ==
    /\ state_arr(k) = -3 /\ DownBar(k)
    /\ st_df[k + 1].high - st_df[k + 1].open > st_df[k + 1].brick_size
    /\ ThreeBar(k) => (k >= 1 /\ DownBar(k - 1))

\* C25: Type2 is positive exactly on the UP bars in State +3 whose lower wick
\* is longer than a brick (negative: DOWN bars in State -3 with such an upper
\* wick), the bar before having the same direction only being asked for when
\* the reversal size is larger than the brick size; both running counters
\* start again from 0 on every bar whose State is not the State of the bar
\* before.
C25_Type2 ==
    CountersFilled =>
        \A k \in StatRowsOf :
            /\ type2_count[k + 1] > 0 <=> Type2Up(k)
            /\ type2_count[k + 1] < 0 <=> Type2Down(k)
            /\ type2_count[k + 1] > 0 => type2_count[k + 1] = FiredInRun(type2_count, k)
            /\ type2_count[k + 1] < 0 => type2_count[k + 1] = -FiredInRun(type2_count, k)
            /\ type1_count[k + 1] > 0 => type1_count[k + 1] = FiredInRun(type1_count, k)
            /\ type1_count[k + 1] < 0 => type1_count[k + 1] = -FiredInRun(type1_count, k)

Returned == st_result # NotCalled
RealMaPrice(m, k) == st_result[1].REAL_MA_Price[m][k + 1]

\* the later bars of the other colour that close beyond EMA m against bar k
ClosedBeyond(m, k) ==
    { b \in StatRowsOf :
        /\ b > k /\ UpBar(b) # UpBar(k) /\ Ema(m, b) # NaN
        /\ IF UpBar(k) THEN st_df[b + 1].close * EmaScale < Ema(m, b)[1]
           ELSE st_df[b + 1].close * EmaScale > Ema(m, b)[1] }

MoveTo(k, b) ==
    IF UpBar(k) THEN st_df[b + 1].close - st_df[k + 1].close
    ELSE st_df[k + 1].close - st_df[b + 1].close

WarmedUp(k) ==
    /\ st_df[k + 1].currentADR # None
    /\ \A m \in 1..3 : Ema(m, k) # NaN
    /\ \A m \in 1..2 : k + 1 >= st_smae[m]

ForwardKnown(k) == \A m \in 1..3 : RealMaPrice(m, k) # NaN

\* C27: the rows returned are those from the earliest row where every warmup
\* column is defined to the latest row where every REAL_MA price is defined,
\* so the first row returned is warmed up and the last row returned has its
\* forward columns, for every table, also when no row qualifies.
C27_Trimmed ==
    Returned =>
        LET rows == st_result[1].rows
        IN  /\ rows = { k \in StatRowsOf : /\ \E a \in StatRowsOf : a <= k /\ WarmedUp(a)
                                            /\ \E b \in StatRowsOf : b >= k /\ ForwardKnown(b) }
            /\ \A k \in rows : (\A a \in rows : k <= a) => WarmedUp(k)
            /\ \A k \in rows : (\A b \in rows : k >= b) => ForwardKnown(k)

(***************************************************************************)
(* Direction of the engine and of its last brick                           *)
(***************************************************************************)
\* the (brick_size, reversal_size) pairs the run can take
SizesInUse ==
    IF size_schedule = NoSchedule
    THEN { <<request.brick_size, request.reversal_size>> }
    ELSE { <<size_schedule[e][2], size_schedule[e][3]>> : e \in 1..Len(size_schedule) }

ReversalNotBelowBrick == \A sz \in SizesInUse : sz[2] >= sz[1] /\ sz[1] > 0

DirectionFlips == direction # 0 /\ direction' = -direction

\* C28: when every size in use has reversal_size >= brick_size > 0, after
\* each bar the direction of the engine is the direction of the last emitted
\* brick, and 0 exactly when no brick was emitted; a step that flips the
\* direction emits at least one brick, and the first brick it emits has the
\* new direction and is_reversal = 1.
C28_DirectionOfLastBrick ==
    [][ ReversalNotBelowBrick' =>
          /\ direction' = (IF bricks' = <<>> THEN 0 ELSE bricks'[Len(bricks')].direction)
          /\ DirectionFlips =>
                /\ Len(NewBricks) >= 1
                /\ NewBricks[1].direction = direction'
                /\ NewBricks[1].is_reversal = 1 ]_vars

\* a run with such sizes that went up, down and up again
C28_Witness ==
    /\ ReversalNotBelowBrick /\ pc = "done"
    /\ \E a, b \in Bricks :
          /\ a < b
          /\ bricks[a].direction = -1 /\ bricks[a].is_reversal = 1
          /\ bricks[b].direction = 1 /\ bricks[b].is_reversal = 1
    /\ direction = 1

(***************************************************************************)
(* Termination of generate_renko_custom                                    *)
(***************************************************************************)
MaxCrossings == 3     \* the tuples of a running call are counted modulo MaxCrossings

\* ADR of the consecutive sessions of the data: undefined, 0.0100, and 0 after
\* a session whose bars all sit on one price
FlatSessionADR == <<None, 10000, 0>>

TerminationInit ==
    /\ SessionIdle /\ AdrIdle /\ BacktestIdle /\ SignalsIdle /\ StatsIdle /\ CrossingIdle
    /\ request \in Requests
    /\ df \in DataFrames
    /\ adr_lookup \in IF request.sizing_mode = "adr"
                      THEN { [k \in 1..Len(df) |-> FlatSessionADR[s[k]]] : s \in SessionsOf(Len(df)) }
                      ELSE { [k \in 1..Len(df) |-> None] }
    /\ size_schedule = NoSchedule
    /\ pc = "request"
    /\ status = 0
    /\ i = 0
    /\ active_bs = 0 /\ active_rs = 0 /\ active_adr = None
    /\ pending_bs = 0 /\ pending_rs = 0 /\ pending_adr = None
    /\ bricks = <<>>
    /\ last_brick_close = 0
    /\ direction = 0
    /\ up_threshold = 0 /\ down_threshold = 0
    /\ pending_high = 0 /\ pending_low = 0
    /\ tick_idx_open = 0
    /\ pending_brick = NoBrick
    /\ emitted_at = <<>>

\* current_threshold +/- brick_sz moves away from the price, so the while
\* loop of find_threshold_crossings comes to an end
ThresholdMoves == active_bs > 0

\* one round of `while price >= current_threshold` (or <=) with brick_sz = 0:
\* bar i has crossed the start threshold of the branch that is taken, a tuple
\* is appended, current_open = j, and current_threshold is what it was, so
\* the round can be taken again
ZeroBrickCrossing ==
    /\ InLoop /\ direction # 0 /\ active_bs = 0
    /\ \/ direction = 1 /\ price >= up_threshold
       \/ direction = 1 /\ price <= down_threshold /\ price <= last_brick_close - active_bs
       \/ direction = -1 /\ price <= down_threshold
       \/ direction = -1 /\ price >= up_threshold /\ price >= last_brick_close + active_bs
    /\ fc_crossings' = (fc_crossings + 1) % MaxCrossings
    /\ UNCHANGED <<engine_all_vars, session_vars, adr_vars, bt_vars, sig_vars, stats_vars>>

TerminationNext ==
    \/ get_renko_data
    \/ ThresholdMoves /\ FirstUpBrick
    \/ ThresholdMoves /\ FirstDownBrick
    \/ ThresholdMoves /\ UpContinuation
    \/ ThresholdMoves /\ ReversalToDown
    \/ ThresholdMoves /\ DownContinuation
    \/ ThresholdMoves /\ ReversalToUp
    \/ NoCrossing
    \/ BuildPendingBrick
    \/ ZeroBrickCrossing

\* the request is served by one thread that runs until it returns
TerminationSpec == TerminationInit /\ [][TerminationNext]_vars /\ WF_vars(TerminationNext)

\* C29: for every frame and every size schedule the callers can build,
\* get_renko_data comes to an end, with bricks or with an error.
C29_Terminates == <>(pc \in {"done", "error"})

(***************************************************************************)
(* Order of the session dates                                              *)
(***************************************************************************)
\* t1 <= t2 on timestamps
NotAfter(t1, t2) ==
    \/ t1.day < t2.day
    \/ t1.day = t2.day /\ t1.hour * 60 + t1.minute <= t2.hour * 60 + t2.minute

\* C30: for every schedule the session date is never a Saturday or a Sunday,
\* is never before the calendar date of the timestamp, and does not decrease
\* with time: an earlier timestamp has no later session date, a later one no
\* earlier session date.
C30_SessionDateMonotone ==
    session_date # NotCalled =>
        /\ weekday(session_date[1]) \notin {5, 6}
        /\ session_date[1] >= dt.day
        /\ \A t \in Timestamps :
              /\ NotAfter(t, dt) => get_session_date(t, schedule) <= session_date[1]
              /\ NotAfter(dt, t) => session_date[1] <= get_session_date(t, schedule)

\* a Friday timestamp at or after the boundary: its session is Monday's, as
\* is the session of the Saturday after it, and that of the Friday morning
\* is Friday's
C30_Witness ==
    /\ session_date # NotCalled
    /\ weekday(dt.day) = 4 /\ session_date[1] = dt.day + 3
    /\ \E t \in Timestamps :
          t.day = dt.day + 1 /\ get_session_date(t, schedule) = session_date[1]
    /\ \E t \in Timestamps :
          t.day = dt.day /\ NotAfter(t, dt) /\ get_session_date(t, schedule) = dt.day

====
